---- MODULE Spec2Model ----
(***************************************************************************)
(* Model of the GitHub export of the Figma variables converter:            *)
(* exportToGitHub (services/export.service.ts), buildThemeAwareCssOutput   *)
(* (services/css-builder.service.ts) and the commit protocol of            *)
(* pushCssThemesToGitHub (github-service.ts), run against a model of the   *)
(* repository's Git Data API.                                              *)
(*                                                                         *)
(* One action is one synchronous run of the code between two awaits: it    *)
(* consumes the response of the request in flight and runs on to the next  *)
(* fetch (or to the return).  Strings the code inspects character by       *)
(* character (theme names) are sequences of one-character strings.         *)
(***************************************************************************)
EXTENDS Naturals, Integers, Sequences, FiniteSets, TLC

\* ------------------------------------------------------------------ bounds
MaxThemes == 2      \* themes of one export
MaxExports == 2     \* "export-github" messages of one session
MaxHops == 4        \* values read by one generateCSSValue call
MaxFragments == 2   \* pieces of one variable name
MaxCollisions == 3  \* feature-branch names already taken in the repository
MaxConversions == 2 \* fulfilled conversions of one session

\* --------------------------------------------------------------- constants
Null == "null"
\* the candidates of github-service.ts:52 in the opposite order
baseBranchCandidates_MainFirst == <<"main", "master">>

\* github-service.ts:52
baseBranchCandidates == <<"master", "main">>
\* one more pass of the creation loop than github-service.ts:101 allows
MaxRefAttempts_Four == 3 + 1

\* github-service.ts:101, the bound of the creation loop
MaxRefAttempts == 3
\* github-service.ts:90, with the timestamp slug of formatCETTimestamp fixed
FeatureBranchBase == "feat/figma-variables-TS"
\* github-service.ts:218
NoVariablesPlaceholder == <<"/* No variables exported */">>

\* ----------------------------------------------------------------- strings
Str_Light == <<"L", "i", "g", "h", "t">>
Str_Dark == <<"D", "a", "r", "k">>
Str_BrandLight == <<"B", "r", "a", "n", "d", " ", "L", "i", "g", "h", "t">>
Str_theme == <<"t", "h", "e", "m", "e">>
Str_dark == <<"d", "a", "r", "k">>
Str_dashLight == <<"-", "l", "i", "g", "h", "t">>

\* resolved variables a theme may carry
VarCounts == {0, 3}

\* the mode names an export may carry
ThemeNamePool == {Str_Light, Str_Dark, Str_BrandLight}

UpperAlphabet ==
  <<"A", "B", "C", "D", "E", "F", "G", "H", "I", "J", "K", "L", "M",
    "N", "O", "P", "Q", "R", "S", "T", "U", "V", "W", "X", "Y", "Z">>
LowerAlphabet ==
  <<"a", "b", "c", "d", "e", "f", "g", "h", "i", "j", "k", "l", "m",
    "n", "o", "p", "q", "r", "s", "t", "u", "v", "w", "x", "y", "z">>

\* String.prototype.toLowerCase, character by character
LowerChar(c) ==
  IF \E i \in DOMAIN UpperAlphabet : UpperAlphabet[i] = c
  THEN LowerAlphabet[CHOOSE i \in DOMAIN UpperAlphabet : UpperAlphabet[i] = c]
  ELSE c

\* String.prototype.toUpperCase, character by character
UpperChar(c) ==
  IF \E i \in DOMAIN LowerAlphabet : LowerAlphabet[i] = c
  THEN UpperAlphabet[CHOOSE i \in DOMAIN LowerAlphabet : LowerAlphabet[i] = c]
  ELSE c

toUpperCase(s) == [i \in DOMAIN s |-> UpperChar(s[i])]

toLowerCase(s) == [i \in DOMAIN s |-> LowerChar(s[i])]

IsSpace(c) == c \in {" ", "\t", "\n"}

\* s.replace(/\s+/g, "-"): every maximal run of whitespace becomes one dash
RECURSIVE ReplaceSpaceRuns(_)
ReplaceSpaceRuns(s) ==
  IF s = <<>> THEN <<>>
  ELSE IF IsSpace(Head(s))
       THEN IF Len(s) > 1 /\ IsSpace(s[2])
            THEN ReplaceSpaceRuns(Tail(s))
            ELSE <<"-">> \o ReplaceSpaceRuns(Tail(s))
       ELSE <<Head(s)>> \o ReplaceSpaceRuns(Tail(s))

\* toKebabCase that leaves the whitespace in place
toKebabCase_LowerOnly(str) == toLowerCase(str)

\* css-generator.ts:776 (helpers/string.helper)
toKebabCase(str) == ReplaceSpaceRuns(toLowerCase(str))

endsWith(s, suffix) ==
  /\ Len(s) >= Len(suffix)
  /\ SubSeq(s, Len(s) - Len(suffix) + 1, Len(s)) = suffix

\* ------------------------------------------------------- css-builder.service
\* buildCssOutput: the document of a theme, kept as its entry count; it is
\* never the empty string (the header and the :root block are always there).
buildCssOutput(nVars) == <<"css", nVars>>

\* an object's keys in insertion order: assigning an existing key keeps its
\* place and replaces its value
RECURSIVE PutKey(_, _, _)
PutKey(obj, key, val) ==
  IF obj = <<>> THEN << [key |-> key, content |-> val] >>
  ELSE IF Head(obj).key = key
       THEN << [key |-> key, content |-> val] >> \o Tail(obj)
       ELSE << Head(obj) >> \o PutKey(Tail(obj), key, val)

\* ThemeSlug naming every theme as a single-theme export is named
ThemeSlug_AlwaysTheme(theme, nThemes) == Str_theme

ThemeSlug(theme, nThemes) ==
  LET themeName == IF nThemes = 1 THEN Str_theme ELSE toKebabCase(theme)
  IN IF endsWith(themeName, Str_dashLight)
     THEN SubSeq(themeName, 1, Len(themeName) - Len(Str_dashLight))
     ELSE themeName

RECURSIVE BuildThemes(_, _, _)
BuildThemes(variablesByTheme, nThemes, result) ==
  IF variablesByTheme = <<>> THEN result
  ELSE BuildThemes(Tail(variablesByTheme), nThemes,
                   PutKey(result,
                          ThemeSlug(Head(variablesByTheme).theme, nThemes),
                          buildCssOutput(Head(variablesByTheme).nVars)))

buildThemeAwareCssOutput(variablesByTheme) ==
  BuildThemes(variablesByTheme, Len(variablesByTheme), <<>>)

\* -------------------------------------------------------------------- state
VARIABLES
  cfg,            \* GITHUB_CONFIG (config.ts): owner, repo, path, token
  call,           \* the invocation: which exported function, with what input
  refs,           \* the repository: branch name -> commit sha (Null: no ref)
  refs0,          \* the repository's refs when the invocation started
  blobs,          \* blob objects the repository created for this export
  trees,          \* tree objects the repository created for this export
  commits,        \* commit objects the repository created for this export
  pc,             \* where the invocation stands
  themeFiles,     \* pushCssThemesToGitHub's argument
  candidateIdx,   \* position of the for loop over baseBranchCandidates
  baseBranch, baseSha, featureBranch, refCreated, attempt,
  baseTreeSha, treeItems, blobIdx, newTreeSha, newCommitSha,
  githubResult,   \* what pushCssThemesToGitHub returned
  exportResult,   \* what exportToGitHub returned
  thrown,         \* an exception left an exported function
  reqLog,         \* every request issued, in order
  respLog         \* the answer to each request, in order of receipt

remoteVars == <<refs, blobs, trees, commits>>
localVars == <<themeFiles, candidateIdx, baseBranch, baseSha, featureBranch,
               refCreated, attempt, baseTreeSha, treeItems, blobIdx,
               newTreeSha, newCommitSha>>
outcomeVars == <<githubResult, exportResult, thrown>>
pushVars == <<call, refs, refs0, blobs, trees, commits, pc, themeFiles,
              candidateIdx, baseBranch, baseSha, featureBranch, refCreated,
              attempt, baseTreeSha, treeItems, blobIdx, newTreeSha,
              newCommitSha, githubResult, exportResult, thrown, reqLog,
              respLog>>

\* ---- the plugin's message handler (main.ts)
VARIABLES
  isRunning,             \* main.ts:13
  lastConversionResult,  \* main.ts:16
  exports,               \* each "export-github" message: where its handler stands
  posted,                \* type of the last message posted to the UI
  inFlight,              \* calls of convertVariablesToCSS that have not settled
  converted,             \* calls of convertVariablesToCSS that have fulfilled
  exported,              \* each "export-github" message: the argument of exportToGitHub
  lastError              \* data.message of the last "convert-error"

mainVars == <<isRunning, lastConversionResult, exports, posted, inFlight,
              converted, exported, lastError>>

\* ---- generateCSSValue (css-value-generator.service.ts)
VARIABLES
  graph,         \* the variables of the file, by id
  colorCache,    \* utils.ts:52
  request,       \* the arguments of the running generateCSSValue call
  rpc,           \* where that call stands
  targetModeId,  \* css-value-generator.service.ts:28
  fetchId,       \* the id handed to getVariableByIdAsync
  reads,         \* every valuesByMode[...] read of the call: variable, mode
  output,        \* what the call returned
  probe          \* the first call that returned: its arguments and output

resolveVars == <<graph, colorCache, request, rpc, targetModeId, fetchId, reads,
                 output, probe>>

\* ---- detectVariableType (variable-type-detector.service.ts)
VARIABLES
  name,             \* a variable name
  variant,          \* the same name in another letter case
  category,         \* detectVariableType(name), once called
  variantCategory   \* detectVariableType(variant), once called

detectVars == <<name, variant, category, variantCategory>>

\* ---- safeFloatConversion (value-converter.service.ts)
VARIABLES
  floatName,     \* the name of a FLOAT variable
  floatLiteral,    \* its value, in hundredths
  floatText,     \* safeFloatConversion(floatLiteral, floatName), once called
  negatedText    \* safeFloatConversion(-floatLiteral, floatName), once called

floatVars == <<floatName, floatLiteral, floatText, negatedText>>

\* ---- buildCssOutput (css-builder.service.ts)
VARIABLES
  cssVariables,  \* the list handed to buildCssOutput
  document       \* the lines it returned, Null before the call

buildVars == <<cssVariables, document>>

\* ---- buildThemeAwareCssOutput (css-builder.service.ts)
VARIABLES
  modeNames,     \* Object.keys(variablesByTheme): the mode names, in order
  themeCss       \* the object it returned, Null before the call

themeVars == <<modeNames, themeCss>>

\* ---- convertVariablesToCSS (variable-conversion.service.ts)
VARIABLES
  collections,     \* the variableIds of every local collection (input)
  missingIds,      \* ids getVariableByIdAsync answers with null (input)
  throwingIds,     \* ids whose resolution throws (input)
  phase,           \* where convertVariablesToCSS is
  chunkAt,         \* <<index of the collection, i>> of the current chunk
  batch,           \* variableIds.slice(i, i + VARIABLE_BATCH_SIZE)
  started,         \* ids whose resolution has been started
  completed,       \* ids whose resolution has settled
  generated,       \* ids with entries in variablesByTheme
  caught,          \* ids whose error the callback caught
  totalProcessed,
  totalVariables,
  progressLog,     \* the processed counts logged, in order
  yields,          \* times control was yielded after a chunk
  chunkLog         \* the chunks handed to processBatchOfVariables, in order

convertInputs == <<collections, missingIds, throwingIds>>
convertVars ==
  <<convertInputs, phase, chunkAt, batch, started, completed, generated, caught,
    totalProcessed, totalVariables, progressLog, yields, chunkLog>>

\* ---- export invocations side by side (main.ts, github-service.ts)
VARIABLES
  runs,            \* per invocation: its await, its locals, its requests
  heads,           \* the feature branches of the repository and their heads
  createdBy,       \* per feature branch, the invocation whose POST made it
  patched,         \* <<invocation, branch>> of every ref update carried out
  configUpdates    \* "update-config" messages handled

raceVars == <<runs, heads, createdBy, patched, configUpdates>>

\* ---- one chunk of a conversion entry by entry, with the caches
\* (variable-conversion.service.ts, cache.helper.ts, css-builder.service.ts)
VARIABLES
  batchFile,        \* the collections of the file, each the variables behind its ids
  stage,            \* where convertVariablesToCSS stands
  conversionCalls,  \* calls of convertVariablesToCSS so far
  callbacks,        \* per variable of the chunk: the await of its callback
  themeEntries,     \* variablesByTheme: the mode names in insertion order, each with its list
  cssNameCache,     \* cache.helper.ts:9
  variablePool,     \* cache.helper.ts:12
  themeData,        \* variablesByTheme of the result last returned
  themeDocs,        \* the documents built from the result last returned
  firstDocs         \* the documents built from the first result of the session

batchVars ==
  <<batchFile, stage, conversionCalls, callbacks, themeEntries, cssNameCache,
    variablePool, themeData, themeDocs, firstDocs>>

\* ---- base64Encode (css-generator.ts:800-836)
VARIABLES
  plain,    \* the character codes of the string to encode
  encoded   \* the characters base64Encode returned

encodeVars == <<plain, encoded>>

\* the state of the services that the message handler, generateCSSValue and
\* detectVariableType leave alone
serviceVars ==
  <<floatVars, buildVars, themeVars, convertVars, raceVars, batchVars, encodeVars>>

\* what the conversion of a number leaves alone, and what the building of a
\* document leaves alone
editorVars == <<cfg, pushVars, mainVars, resolveVars, detectVars>>
floatFrame ==
  <<editorVars, buildVars, themeVars, convertVars, raceVars, batchVars, encodeVars>>
buildFrame ==
  <<editorVars, floatVars, themeVars, convertVars, raceVars, batchVars, encodeVars>>
themeFrame ==
  <<editorVars, floatVars, buildVars, convertVars, raceVars, batchVars, encodeVars>>
convertFrame ==
  <<editorVars, floatVars, buildVars, themeVars, raceVars, batchVars, encodeVars>>
raceFrame ==
  <<pushVars, mainVars, resolveVars, detectVars, floatVars, buildVars, themeVars,
    convertVars, batchVars, encodeVars>>
batchFrame ==
  <<editorVars, floatVars, buildVars, themeVars, convertVars, raceVars, encodeVars>>
encodeFrame ==
  <<editorVars, floatVars, buildVars, themeVars, convertVars, raceVars, batchVars>>

pluginVars == <<mainVars, resolveVars, detectVars, serviceVars>>
vars == <<cfg, pushVars, pluginVars>>

\* ----------------------------------------------------------------- inputs
\* the name tried at a given attempt (github-service.ts:102-103)
BranchNameAt(branch, n) ==
  IF n = 0 THEN branch ELSE branch \o "-" \o ToString(n)

FeatureNames == {BranchNameAt(FeatureBranchBase, n) : n \in 0..(MaxCollisions + 1)}
AllBranches == {"master", "main"} \cup FeatureNames

\* the commits the repository holds before the export, and their trees
BaseCommitOf(branch) == IF branch = "master" THEN "commit_master" ELSE "commit_main"
BaseTreeOf(sha) == IF sha = "commit_master" THEN "tree_master" ELSE "tree_main"

InitialRefs(hasMaster, hasMain, taken) ==
  [b \in AllBranches |->
     CASE b = "master" -> IF hasMaster THEN BaseCommitOf(b) ELSE Null
       [] b = "main" -> IF hasMain THEN BaseCommitOf(b) ELSE Null
       [] OTHER -> IF \E n \in 0..(taken - 1) : b = BranchNameAt(FeatureBranchBase, n)
                   THEN "commit_other" ELSE Null]

\* sequences without repetition, of length lo..hi, over a set
DistinctSeqs(S, lo, hi) ==
  UNION {{s \in [1..n -> S] : \A i, j \in 1..n : i # j => s[i] # s[j]} : n \in lo..hi}

\* ConversionResult values exportToGitHub may be handed
DataPool ==
  {[isNull |-> TRUE, variablesByTheme |-> <<>>, nVars |-> 0]}
  \cup {[isNull |-> FALSE,
         variablesByTheme |-> [i \in DOMAIN names |-> [theme |-> names[i], nVars |-> n]],
         nVars |-> n] :
          names \in DistinctSeqs(ThemeNamePool, 0, MaxThemes), n \in VarCounts}

\* ThemeCssOutput values pushCssThemesToGitHub may be handed directly
FilesPool ==
  {[i \in DOMAIN keys |-> [key |-> keys[i], content |-> c]] :
     keys \in DistinctSeqs({Str_theme, Str_dark}, 0, MaxThemes),
     c \in {<<>>, buildCssOutput(1)}}

Calls ==
  {[fn |-> "exportToGitHub", data |-> d, themeFiles |-> <<>>] : d \in DataPool}
  \cup {[fn |-> "pushCssThemesToGitHub",
         data |-> [isNull |-> TRUE, variablesByTheme |-> <<>>, nVars |-> 0],
         themeFiles |-> f] : f \in FilesPool}

\* GitHubApiResponse (types/github.types): a message is kept as
\* <<prefix, text, number quoted in the text>>
NoResult == [returned |-> FALSE, success |-> FALSE, message |-> <<>>, sha |-> Null]
Result(success, message, sha) ==
  [returned |-> TRUE, success |-> success, message |-> message, sha |-> sha]

\* "export-github" messages of one session
ExportIds == 1..MaxExports

\* main.ts:13-16, before any message
\* the object the n-th fulfilled call of convertVariablesToCSS returned
ConversionResult(n) == ToString(n)

MainInit ==
  /\ isRunning = FALSE
  /\ lastConversionResult = Null
  /\ exports = [e \in ExportIds |-> "none"]
  /\ posted = Null
  /\ inFlight = 0
  /\ converted = 0
  /\ exported = [e \in ExportIds |-> Null]
  /\ lastError = Null

PushInit ==
  /\ cfg \in [owner : {"", "acme"}, repo : {"", "tokens"},
              path : {"", "src/styles"}, token : {"", "ghp_x"}]
  /\ call \in Calls
  /\ \E hasMaster \in BOOLEAN, hasMain \in BOOLEAN, taken \in 0..MaxCollisions :
       refs = InitialRefs(hasMaster, hasMain, taken)
  /\ refs0 = refs
  /\ blobs = {}
  /\ trees = <<>>
  /\ commits = <<>>
  /\ pc = "idle"
  /\ themeFiles = <<>>
  /\ candidateIdx = 0
  /\ baseBranch = Null
  /\ baseSha = Null
  /\ featureBranch = Null
  /\ refCreated = FALSE
  /\ attempt = 0
  /\ baseTreeSha = Null
  /\ treeItems = <<>>
  /\ blobIdx = 0
  /\ newTreeSha = Null
  /\ newCommitSha = Null
  /\ githubResult = NoResult
  /\ exportResult = NoResult
  /\ thrown = FALSE
  /\ reqLog = <<>>
  /\ respLog = <<>>

\* ------------------------------------------------- values and their texts
\* A JavaScript string that the code inspects is a sequence of characters;
\* Text is the same string as one value.
RECURSIVE Text(_)
Text(s) == IF s = <<>> THEN "" ELSE s[1] \o Text(Tail(s))

\* String.prototype.includes
includes(s, sub) ==
  \E i \in 0..(Len(s) - Len(sub)) : SubSeq(s, i + 1, i + Len(sub)) = sub

\* Array.prototype.some over a keyword list
some(keywords, lowerName) == \E i \in DOMAIN keywords : includes(lowerName, keywords[i])

\* String.prototype.trim
RECURSIVE trimStart(_)
trimStart(s) == IF s # <<>> /\ IsSpace(s[1]) THEN trimStart(Tail(s)) ELSE s

RECURSIVE trimEnd(_)
trimEnd(s) ==
  IF s # <<>> /\ IsSpace(s[Len(s)]) THEN trimEnd(SubSeq(s, 1, Len(s) - 1)) ELSE s

trim(s) == trimEnd(trimStart(s))

\* token-patterns.ts:42
OPACITY_KEYWORDS ==
  <<<<"o", "p", "a", "c", "i", "t", "y">>,
     <<"a", "l", "p", "h", "a">>>>

\* token-patterns.ts:45
WEIGHT_KEYWORDS ==
  <<<<"w", "e", "i", "g", "h", "t">>,
     <<"f", "o", "n", "t", "w", "e", "i", "g", "h", "t">>>>

\* token-patterns.ts:48
DURATION_KEYWORDS ==
  <<<<"d", "u", "r", "a", "t", "i", "o", "n">>,
     <<"t", "i", "m", "i", "n", "g">>>>

\* token-patterns.ts:51
ZINDEX_KEYWORDS ==
  <<<<"z", "i", "n", "d", "e", "x">>,
     <<"z", "-", "i", "n", "d", "e", "x">>>>


\* A number is held in hundredths: 150 is 1.5, -800 is -8.
Hundredths == 100

Abs(n) == IF n < 0 THEN -n ELSE n

RECURSIVE Pow10(_)
Pow10(k) == IF k = 0 THEN 1 ELSE 10 * Pow10(k - 1)

\* the digits of the fraction frac / 10^digits without its trailing zeros
RECURSIVE FractionText(_, _)
FractionText(frac, digits) ==
  IF frac = 0 THEN ""
  ELSE LET unit == Pow10(digits - 1)
       IN ToString(frac \div unit) \o FractionText(frac % unit, digits - 1)

\* Number.prototype.toString of num / 10^digits
DecimalText(num, digits) ==
  LET whole == Abs(num) \div Pow10(digits)
      frac == Abs(num) % Pow10(digits)
  IN (IF num < 0 THEN "-" ELSE "") \o ToString(whole) \o
     (IF frac = 0 THEN "" ELSE "." \o FractionText(frac, digits))

\* numeric.helper.ts
BASE_FONT_SIZE == 16

\* pxToRem taking the absolute value itself
pxToRem_Absolute(px) ==
  DecimalText(Abs(px) * (1000000 \div (BASE_FONT_SIZE * Hundredths)), 6) \o "rem"

\* pxToRem (numeric.helper.ts:10-13): px / 16 is px * 625 / 10^6 in hundredths
pxToRem(px) ==
  DecimalText(px * (1000000 \div (BASE_FONT_SIZE * Hundredths)), 6) \o "rem"

\* clamp that lets every value through
clamp_Unbounded(value, min, max) == value

clamp(value, min, max) ==
  IF value < min THEN min ELSE IF value > max THEN max ELSE value

\* Math.round: the nearest integer, a half rounds up
MathRound(value) == (value + Hundredths \div 2) \div Hundredths

\* safeFloatConversion with the weight test before the opacity test
safeFloatConversion_WeightFirst(floatValue, variableName) ==
  LET variableNameLower == toLowerCase(variableName)
  IN IF some(WEIGHT_KEYWORDS, variableNameLower)
     THEN ToString(MathRound(floatValue))
     ELSE IF some(OPACITY_KEYWORDS, variableNameLower)
     THEN ToString(clamp(floatValue, 0, Hundredths)) \o "%"
     ELSE IF some(DURATION_KEYWORDS, variableNameLower)
     THEN IF floatValue < 0 THEN "0ms" ELSE DecimalText(floatValue, 2) \o "ms"
     ELSE IF some(ZINDEX_KEYWORDS, variableNameLower)
     THEN ToString(MathRound(floatValue))
     ELSE IF floatValue < 0 THEN pxToRem(Abs(floatValue)) ELSE pxToRem(floatValue)

\* safeFloatConversion (value-converter.service.ts:48-115); every number of
\* the model is finite, so isValidNumber holds
safeFloatConversion(floatValue, variableName) ==
  LET variableNameLower == toLowerCase(variableName)
  IN IF some(OPACITY_KEYWORDS, variableNameLower)
     THEN \* round(clamp(v, 0, 1) * 100): a whole number of hundredths
          ToString(clamp(floatValue, 0, Hundredths)) \o "%"
     ELSE IF some(WEIGHT_KEYWORDS, variableNameLower)
     THEN ToString(MathRound(floatValue))
     ELSE IF some(DURATION_KEYWORDS, variableNameLower)
     THEN IF floatValue < 0 THEN "0ms" ELSE DecimalText(floatValue, 2) \o "ms"
     ELSE IF some(ZINDEX_KEYWORDS, variableNameLower)
     THEN ToString(MathRound(floatValue))
     ELSE IF floatValue < 0 THEN pxToRem(Abs(floatValue)) ELSE pxToRem(floatValue)

\* sanitizeString (string.helper), then safeStringConversion
\* (value-converter.service.ts:121-152)
sanitizeString(value) == trim(value)

safeStringConversion(stringValue) ==
  LET sanitized == sanitizeString(stringValue)
  IN IF Len(sanitized) = 0 THEN "" ELSE Text(sanitized)

\* ---- colours
\* An RGBA value of Figma: channels in 0..1, here 0 or 1, alpha in hundredths
Color(r, g, b, a) == [kind |-> "color", r |-> r, g |-> g, b |-> b, a |-> a]

\* css-generator.ts:133, the value of FALLBACK_OKLCH_COLOR
FALLBACK_OKLCH_COLOR == "oklch(0 0 0)"

\* toRgbChannel (utils.ts:66): Math.round(clampUnitRange(value) * 255)
toRgbChannel(value) == clamp(value, 0, 1) * 255

\* Colorizr's conversion of 8-bit channels to OKLCH is a fixed one-to-one
\* function of the channels; its text names the channels it was given.
ColorizrOklch(r, g, b) ==
  ToString(r) \o "," \o ToString(g) \o "," \o ToString(b)

\* buildOklchString (utils.ts:76-88); convertColorToOklch
\* (color.helper.ts:334-354) appends the alpha in the same way
buildOklchString(lch, alpha) ==
  "oklch(" \o lch \o
  (IF alpha >= 0 /\ alpha <= Hundredths /\ alpha # Hundredths
   THEN " / " \o DecimalText(alpha, 2) ELSE "") \o ")"

\* the conversion itself, without any cache
ConvertChannels(c) ==
  buildOklchString(ColorizrOklch(toRgbChannel(c.r), toRgbChannel(c.g),
                                 toRgbChannel(c.b)), c.a)

\* cache key of rgbToOklch without the blue channel
cacheKey_NoBlue(c) ==
  IF c.a = Hundredths
  THEN "rgb:" \o ToString(c.r) \o "," \o ToString(c.g)
  ELSE "rgba:" \o ToString(c.r) \o "," \o ToString(c.g) \o "," \o
       DecimalText(c.a, 2)

\* cache key of rgbToOklch / rgbaToOklch (utils.ts:102, 147); rgbaToOklch
\* hands an alpha of 1 to rgbToOklch (utils.ts:143-145)
cacheKey(c) ==
  IF c.a = Hundredths
  THEN "rgb:" \o ToString(c.r) \o "," \o ToString(c.g) \o "," \o ToString(c.b)
  ELSE "rgba:" \o ToString(c.r) \o "," \o ToString(c.g) \o "," \o
       ToString(c.b) \o "," \o DecimalText(c.a, 2)

\* utils.ts:54
MAX_CACHE_SIZE == 1000

CachedKeys(cache) == {entry.key : entry \in cache}
CacheGet(cache, key) == (CHOOSE entry \in cache : entry.key = key).value

\* rgbToOklch / rgbaToOklch (utils.ts:96-165): the text returned ...
rgbToOklch(cache, c) ==
  IF cacheKey(c) \in CachedKeys(cache)
  THEN CacheGet(cache, cacheKey(c))
  ELSE ConvertChannels(c)

\* ... and the cache afterwards (cacheResult, utils.ts:90-94)
cacheResult(cache, c) ==
  IF cacheKey(c) \notin CachedKeys(cache) /\ Cardinality(cache) < MAX_CACHE_SIZE
  THEN cache \cup {[key |-> cacheKey(c), value |-> ConvertChannels(c)]}
  ELSE cache

\* --------------------------------------------- the variable graph (Figma)
VarIds == {"VariableID:A", "VariableID:B", "VariableID:C"}

\* an id that names no variable of the file
GoneId == "VariableID:gone"

\* the mode ids of the collection, in the order of Object.keys
Modes == <<"1:0", "1:1">>
ModeIds == {Modes[i] : i \in DOMAIN Modes}

Undefined == [kind |-> "undefined"]
Number(n) == [kind |-> "number", n |-> n]
String(s) == [kind |-> "string", s |-> s]
Alias(id) == [kind |-> "alias", id |-> id]

\* Variable.name
NameOf(id) ==
  CASE id = "VariableID:A" -> <<"s", "p", "a", "c", "i", "n", "g", "-", "m", "d">>
    [] id = "VariableID:B" -> <<"O", "p", "a", "c", "i", "t", "y", "/", "h", "o", "v", "e", "r">>
    [] id = "VariableID:C" -> <<"f", "o", "n", "t", "W", "e", "i", "g", "h", "t", "B", "o", "l", "d">>

\* the literal values a variable of a type can hold: two for the first mode,
\* one for the second
Literals(resolvedType) ==
  CASE resolvedType = "COLOR" ->
         <<Color(1, 0, 0, Hundredths), Color(1, 0, 1, Hundredths), Color(1, 0, 0, 50)>>
    [] resolvedType = "FLOAT" -> <<Number(0), Number(2400), Number(150)>>
    [] resolvedType = "STRING" -> <<String(<<>>), String(<<"I", "n", "t", "e", "r">>), String(<<" ", "s", "e", "r", "i", "f", " ">>)>>

ResolvedTypes == {"COLOR", "FLOAT", "STRING"}

\* what a variable can hold in the first mode: nothing, a literal, or an
\* alias to a variable in Targets
FirstModeValues(t, Targets) ==
  {Undefined, Literals(t)[1], Literals(t)[2]} \cup {Alias(target) : target \in Targets}

VariableWith(t, v1, v2) ==
  [resolvedType |-> t,
   valuesByMode |-> [m \in ModeIds |-> IF m = Modes[1] THEN v1 ELSE v2]]

\* The files of the model: A has any type and B and C share one; aliases
\* lead from A to B, from B to A or C, or out of the file;
\* the second mode holds a literal in every variable or in none.
GraphsOfTypes(tA, tBC) ==
  {[id \in VarIds |->
      CASE id = "VariableID:A" -> VariableWith(tA, a, IF second THEN Literals(tA)[3] ELSE Undefined)
        [] id = "VariableID:B" -> VariableWith(tBC, b, IF second THEN Literals(tBC)[3] ELSE Undefined)
        [] id = "VariableID:C" -> VariableWith(tBC, c, IF second THEN Literals(tBC)[3] ELSE Undefined)] :
     second \in BOOLEAN,
     a \in FirstModeValues(tA, {"VariableID:B", GoneId}) \ {Literals(tA)[1]},
     b \in FirstModeValues(tBC, {"VariableID:A", "VariableID:C", GoneId}),
     c \in FirstModeValues(tBC, {})}

\* the types of A and of B and C
TypePairs ==
  {<<t, t>> : t \in ResolvedTypes} \cup
  {<<"FLOAT", "COLOR">>, <<"COLOR", "STRING">>, <<"STRING", "FLOAT">>}

GraphPool == UNION {GraphsOfTypes(pair[1], pair[2]) : pair \in TypePairs}

\* the calls of generateCSSValue: processBatchOfVariables passes a mode of
\* the collection; the mode is optional and the variable may be missing
RequestPool ==
  {[variable |-> variable, modeId |-> modeId] : variable \in VarIds, modeId \in ModeIds}
  \cup {[variable |-> "undefined", modeId |-> Modes[1]],
        [variable |-> "VariableID:A", modeId |-> "undefined"]}

NoRequest == [variable |-> "undefined", modeId |-> "undefined"]
NoProbe == [set |-> FALSE, request |-> NoRequest, output |-> ""]

\* before any call of generateCSSValue
ResolveInit ==
  /\ colorCache = {}
  /\ request = NoRequest
  /\ rpc = "idle"
  /\ targetModeId = "undefined"
  /\ fetchId = Null
  /\ reads = <<>>
  /\ output = ""
  /\ probe = NoProbe

\* a file none of whose variables holds a value
EmptyFile == [id \in VarIds |-> VariableWith("COLOR", Undefined, Undefined)]

ResolveIdle == ResolveInit /\ graph = EmptyFile

\* no name handed to detectVariableType
DetectIdle ==
  /\ name = <<>>
  /\ variant = <<>>
  /\ category = Null
  /\ variantCategory = Null

\* no number handed to safeFloatConversion
FloatIdle ==
  /\ floatName = <<>>
  /\ floatLiteral = 0
  /\ floatText = Null
  /\ negatedText = Null

BuildIdle ==
  /\ cssVariables = <<>>
  /\ document = Null

ThemeIdle ==
  /\ modeNames = <<>>
  /\ themeCss = Null

ConvertAtRest ==
  /\ phase = "idle"
  /\ chunkAt = <<0, 0>>
  /\ batch = <<>>
  /\ started = {}
  /\ completed = {}
  /\ generated = {}
  /\ caught = {}
  /\ totalProcessed = 0
  /\ totalVariables = 0
  /\ progressLog = <<>>
  /\ yields = 0
  /\ chunkLog = <<>>

ConvertIdle ==
  /\ collections = <<>>
  /\ missingIds = {}
  /\ throwingIds = {}
  /\ ConvertAtRest

RaceIdle ==
  /\ runs = <<>>
  /\ heads = <<>>
  /\ createdBy = <<>>
  /\ patched = {}
  /\ configUpdates = 0

\* no conversion called yet
BatchAtRest ==
  /\ stage = "idle"
  /\ conversionCalls = 0
  /\ callbacks = <<>>
  /\ themeEntries = <<>>
  /\ cssNameCache = {}
  /\ variablePool = <<>>
  /\ themeData = Null
  /\ themeDocs = Null
  /\ firstDocs = Null

BatchIdle ==
  /\ batchFile = <<>>
  /\ BatchAtRest

EncodeIdle ==
  /\ plain = <<>>
  /\ encoded = Null

ServiceIdle ==
  FloatIdle /\ BuildIdle /\ ThemeIdle /\ ConvertIdle /\ RaceIdle /\ BatchIdle /\ EncodeIdle

Init == PushInit /\ MainInit /\ ResolveIdle /\ DetectIdle /\ ServiceIdle

\* ------------------------------------------------ the repository's REST API
\* A response: status 0 is a fetch that rejected (no response reached the
\* caller); applied tells whether the repository carried the request out.
Response(status, alreadyExists, applied, sha) ==
  [status |-> status, alreadyExists |-> alreadyExists, applied |-> applied, sha |-> sha]

ok(resp) == resp.status \in 200..299

\* answers that leave the repository as it was: error statuses, and a fetch
\* that rejects before the request is carried out
Refusals(statuses) == {Response(st, FALSE, FALSE, Null) : st \in statuses \cup {0}}

BlobShaOf(content) ==
  IF content = NoVariablesPlaceholder THEN "blob_placeholder"
  ELSE "blob_css" \o ToString(content[2])

NextTreeSha == "tree_new" \o ToString(Len(trees) + 1)
NextCommitSha == "commit_new" \o ToString(Len(commits) + 1)

\* the tree of a commit the repository holds
TreeOfCommit(sha) ==
  IF \E i \in DOMAIN commits : commits[i].sha = sha
  THEN (CHOOSE c \in {commits[i] : i \in DOMAIN commits} : c.sha = sha).tree
  ELSE BaseTreeOf(sha)

\* a non-forced ref update is accepted only as a fast-forward
IsFastForward(current, new) ==
  \/ new = current
  \/ \E i \in DOMAIN commits :
       /\ commits[i].sha = new
       /\ \E k \in DOMAIN commits[i].parents : commits[i].parents[k] = current

\* every answer the repository can give to a request in its present state
Responses(req) ==
  CASE req.op = "GET_ref" ->
         (IF refs[req.branch] # Null
          THEN {Response(200, FALSE, FALSE, refs[req.branch])} ELSE {})
         \cup Refusals({401, 403, 404, 500})
    [] req.op = "POST_ref" ->
         (IF refs[req.ref] # Null
          THEN {Response(422, TRUE, FALSE, Null)}
          ELSE {Response(201, FALSE, TRUE, req.sha), Response(0, FALSE, TRUE, Null)})
         \cup Refusals({401, 403, 404, 422, 500})
    [] req.op = "GET_commit" ->
         {Response(200, FALSE, FALSE, TreeOfCommit(req.sha))}
         \cup Refusals({401, 403, 404, 500})
    [] req.op = "POST_blob" ->
         {Response(201, FALSE, TRUE, BlobShaOf(req.content))}
         \cup Refusals({401, 403, 404, 422, 500})
    [] req.op = "POST_tree" ->
         {Response(201, FALSE, TRUE, NextTreeSha)}
         \cup Refusals({401, 403, 404, 422, 500})
    [] req.op = "POST_commit" ->
         {Response(201, FALSE, TRUE, NextCommitSha)}
         \cup Refusals({401, 403, 404, 422, 500})
    [] req.op = "PATCH_ref" ->
         (IF refs[req.branch] # Null
             /\ (req.force \/ IsFastForward(refs[req.branch], req.sha))
          THEN {Response(200, FALSE, TRUE, req.sha), Response(0, FALSE, TRUE, Null)}
          ELSE {})
         \cup Refusals({401, 403, 404, 422, 500})

\* the repository answers a request, carrying it out if the answer says so
ServerEffect(req, resp) ==
  /\ respLog' = Append(respLog, resp)
  /\ refs' = IF ~resp.applied THEN refs
             ELSE IF req.op = "POST_ref" THEN [refs EXCEPT ![req.ref] = req.sha]
             ELSE IF req.op = "PATCH_ref" THEN [refs EXCEPT ![req.branch] = req.sha]
             ELSE refs
  /\ blobs' = IF resp.applied /\ req.op = "POST_blob"
              THEN blobs \cup {BlobShaOf(req.content)} ELSE blobs
  /\ trees' = IF resp.applied /\ req.op = "POST_tree"
              THEN Append(trees, [sha |-> NextTreeSha, base_tree |-> req.base_tree,
                                  tree |-> req.tree])
              ELSE trees
  /\ commits' = IF resp.applied /\ req.op = "POST_commit"
                THEN Append(commits, [sha |-> NextCommitSha, tree |-> req.tree,
                                      parents |-> req.parents, message |-> req.message])
                ELSE commits

\* ------------------------------------------------- control-flow primitives
LastRequest == reqLog[Len(reqLog)]

\* await fetch(...): issue the request and suspend until it is answered
Fetch(req, awaiting) ==
  /\ reqLog' = Append(reqLog, req)
  /\ pc' = awaiting
  /\ UNCHANGED outcomeVars

\* pushCssThemesToGitHub returns (github-service.ts:324-328 and 331-336)
PushReturns(result) ==
  /\ githubResult' = result
  /\ pc' = IF call.fn = "exportToGitHub" THEN "export_resume" ELSE "done"
  /\ UNCHANGED <<reqLog, exportResult, thrown>>

\* PushThrows without the catch of github-service.ts:329: the error leaves
\* the function
PushThrows_Uncaught(text, number) ==
  /\ thrown' = TRUE
  /\ pc' = "done"
  /\ UNCHANGED <<githubResult, exportResult, reqLog>>

\* an error raised inside pushCssThemesToGitHub's try block reaches its
\* catch (github-service.ts:329-337), which returns a failure result
PushThrows(text, number) ==
  PushReturns(Result(FALSE, <<"Error: ", text, number>>, Null))

\* the request a step issues
GetRef(candidate) == [op |-> "GET_ref", branch |-> candidate]
CreateRef(branchName, sha) == [op |-> "POST_ref", ref |-> branchName, sha |-> sha]
GetCommit(sha) == [op |-> "GET_commit", sha |-> sha]
CreateBlob(content) ==
  [op |-> "POST_blob",
   content |-> IF content = <<>> THEN NoVariablesPlaceholder ELSE content]
\* CreateTree without the base_tree of github-service.ts:251
CreateTree_NoBaseTree(base, items) ==
  [op |-> "POST_tree", base_tree |-> Null, tree |-> items]

CreateTree(base, items) == [op |-> "POST_tree", base_tree |-> base, tree |-> items]
CreateCommit(tree, base, branch) ==
  [op |-> "POST_commit", tree |-> tree, parents |-> <<base>>,
   message |-> [themes |-> [i \in DOMAIN themeFiles |-> themeFiles[i].key],
                baseBranch |-> branch]]
\* UpdateRef that drops the suffix a retried creation added
\* (github-service.ts:117 not carried into the URL of github-service.ts:300)
UpdateRef_Unsuffixed(branch, sha) ==
  [op |-> "PATCH_ref", branch |-> FeatureBranchBase, sha |-> sha, force |-> FALSE]

\* UpdateRef aimed at the base branch instead of the feature branch
UpdateRef_BaseBranch(branch, sha) ==
  [op |-> "PATCH_ref", branch |-> baseBranch, sha |-> sha, force |-> FALSE]

UpdateRef(branch, sha) ==
  [op |-> "PATCH_ref", branch |-> branch, sha |-> sha, force |-> FALSE]

TreeItem(themeName, sha) ==
  [path |-> <<cfg.path, themeName, "variables.css">>, mode |-> "100644",
   type |-> "blob", sha |-> sha]

\* ------------------------------------------------------------- the actions
\* pushCssThemesToGitHub up to its first await (github-service.ts:35-58)
PushStart(files) ==
  /\ themeFiles' = files
  /\ IF Len(files) = 0
     THEN /\ PushThrows("No CSS themes to push", 0)
          /\ UNCHANGED <<candidateIdx, baseBranch>>
     ELSE IF cfg.path = ""
     THEN /\ PushThrows("GitHub config path is not set", 0)
          /\ UNCHANGED <<candidateIdx, baseBranch>>
     ELSE /\ baseBranch' = baseBranchCandidates[1]
          /\ candidateIdx' = 1
          /\ Fetch(GetRef(baseBranchCandidates[1]), "await_baseRef")
  /\ UNCHANGED <<baseSha, featureBranch, refCreated, attempt, baseTreeSha,
                 treeItems, blobIdx, newTreeSha, newCommitSha>>

\* a direct call of the exported pushCssThemesToGitHub
CallPush ==
  /\ pc = "idle"
  /\ call.fn = "pushCssThemesToGitHub"
  /\ PushStart(call.themeFiles)
  /\ UNCHANGED <<pluginVars, cfg, call, refs0, remoteVars, respLog>>

\* assertGitHubConfig without the token check of export.service.ts:15
MissingConfig_NoToken ==
  {k \in {"owner", "repo", "path"} : cfg[k] = ""}

\* assertGitHubConfig (export.service.ts:10-22)
MissingConfig ==
  {k \in {"owner", "repo", "path", "token"} : cfg[k] = ""}

\* exportToGitHub up to its await (export.service.ts:27-56 and 71-75); an
\* error raised here reaches the catch at 90-96
ExportToGitHub ==
  /\ pc = "idle"
  /\ call.fn = "exportToGitHub"
  /\ IF MissingConfig # {}
     THEN /\ exportResult' = Result(FALSE, <<"", "GitHub configuration is incomplete",
                                             Cardinality(MissingConfig)>>, Null)
          /\ pc' = "done"
          /\ UNCHANGED <<localVars, githubResult, thrown, reqLog>>
     ELSE IF call.data.isNull
     THEN /\ exportResult' = Result(FALSE, <<"", "TypeError", 0>>, Null)
          /\ pc' = "done"
          /\ UNCHANGED <<localVars, githubResult, thrown, reqLog>>
     ELSE IF Len(call.data.variablesByTheme) > 0
     THEN PushStart(buildThemeAwareCssOutput(call.data.variablesByTheme))
     ELSE PushStart(<< [key |-> Str_theme, content |-> buildCssOutput(call.data.nVars)] >>)
  /\ UNCHANGED <<pluginVars, cfg, call, refs0, remoteVars, respLog>>

\* exportToGitHub after its await (export.service.ts:58-70 and 79-88)
ExportResume ==
  /\ pc = "export_resume"
  /\ exportResult' =
       IF githubResult.success
       THEN Result(TRUE, <<"", "Successfully exported", Len(themeFiles)>>, Null)
       ELSE Result(FALSE, githubResult.message, Null)
  /\ pc' = "done"
  /\ UNCHANGED <<pluginVars, cfg, call, refs0, remoteVars, localVars, githubResult, thrown,
                 reqLog, respLog>>

\* the base-ref lookup is answered (github-service.ts:56-104)
RecvBaseRef ==
  /\ pc = "await_baseRef"
  /\ \E resp \in Responses(LastRequest) :
       /\ ServerEffect(LastRequest, resp)
       /\ IF resp.status = 0
          THEN /\ PushThrows("fetch failed", 0)
               /\ UNCHANGED <<candidateIdx, baseBranch, baseSha, featureBranch>>
          ELSE IF ok(resp)
          THEN /\ baseSha' = resp.sha
               /\ baseBranch' = baseBranchCandidates[candidateIdx]
               /\ featureBranch' = FeatureBranchBase
               /\ Fetch(CreateRef(BranchNameAt(FeatureBranchBase, 0), resp.sha),
                        "await_createRef")
               /\ UNCHANGED candidateIdx
          ELSE IF candidateIdx < Len(baseBranchCandidates)
          THEN /\ candidateIdx' = candidateIdx + 1
               /\ Fetch(GetRef(baseBranchCandidates[candidateIdx + 1]), "await_baseRef")
               /\ UNCHANGED <<baseBranch, baseSha, featureBranch>>
          ELSE /\ PushThrows("Failed to resolve base branch", 0)
               /\ UNCHANGED <<candidateIdx, baseBranch, baseSha, featureBranch>>
  /\ UNCHANGED <<pluginVars, cfg, call, refs0, themeFiles, refCreated, attempt, baseTreeSha,
                 treeItems, blobIdx, newTreeSha, newCommitSha>>

\* CreateRefError without the status branches of github-service.ts:132-166
CreateRefError_Generic(status) == <<"Failed to create branch", status>>

\* the error a refused branch creation raises (github-service.ts:131-171)
CreateRefError(status) ==
  CASE status = 403 -> <<"GitHub Access Denied (403 Forbidden)", 403>>
    [] status = 404 -> <<"Repository Not Found (404)", 404>>
    [] status = 401 -> <<"Authentication Failed (401 Unauthorized)", 401>>
    [] OTHER -> <<"Failed to create branch", status>>

\* a branch creation is answered (github-service.ts:101-182)
RecvCreateRef ==
  /\ pc = "await_createRef"
  /\ \E resp \in Responses(LastRequest) :
       LET branchName == BranchNameAt(featureBranch, attempt) IN
       /\ ServerEffect(LastRequest, resp)
       /\ IF resp.status = 0
          THEN /\ PushThrows("fetch failed", 0)
               /\ UNCHANGED <<featureBranch, refCreated, attempt>>
          ELSE IF ok(resp)
          THEN /\ featureBranch' = branchName
               /\ refCreated' = TRUE
               /\ Fetch(GetCommit(baseSha), "await_baseCommit")
               /\ UNCHANGED attempt
          ELSE IF resp.status = 422 /\ resp.alreadyExists
          THEN /\ attempt' = attempt + 1
               /\ IF attempt + 1 < MaxRefAttempts
                  THEN Fetch(CreateRef(BranchNameAt(featureBranch, attempt + 1), baseSha),
                             "await_createRef")
                  ELSE PushThrows("Failed to create feature branch after multiple attempts", 0)
               /\ UNCHANGED <<featureBranch, refCreated>>
          ELSE /\ PushThrows(CreateRefError(resp.status)[1], CreateRefError(resp.status)[2])
               /\ UNCHANGED <<featureBranch, refCreated, attempt>>
  /\ UNCHANGED <<pluginVars, cfg, call, refs0, themeFiles, candidateIdx, baseBranch, baseSha,
                 baseTreeSha, treeItems, blobIdx, newTreeSha, newCommitSha>>

\* the read of the base commit is answered (github-service.ts:191-221)
RecvBaseCommit ==
  /\ pc = "await_baseCommit"
  /\ \E resp \in Responses(LastRequest) :
       /\ ServerEffect(LastRequest, resp)
       /\ IF resp.status = 0
          THEN /\ PushThrows("fetch failed", 0)
               /\ UNCHANGED <<baseTreeSha, blobIdx>>
          ELSE IF ~ok(resp)
          THEN /\ PushThrows("Failed to get commit", resp.status)
               /\ UNCHANGED <<baseTreeSha, blobIdx>>
          ELSE /\ baseTreeSha' = resp.sha
               /\ blobIdx' = 1
               /\ Fetch(CreateBlob(themeFiles[1].content), "await_blob")
  /\ UNCHANGED <<pluginVars, cfg, call, refs0, themeFiles, candidateIdx, baseBranch, baseSha,
                 featureBranch, refCreated, attempt, treeItems, newTreeSha,
                 newCommitSha>>

\* RecvBlob leaving the loop of github-service.ts:205 after its first pass
RecvBlob_FirstOnly ==
  /\ pc = "await_blob"
  /\ \E resp \in Responses(LastRequest) :
       /\ ServerEffect(LastRequest, resp)
       /\ IF resp.status = 0
          THEN /\ PushThrows("fetch failed", 0)
               /\ UNCHANGED <<treeItems, blobIdx>>
          ELSE IF ~ok(resp)
          THEN /\ PushThrows("Failed to create blob", resp.status)
               /\ UNCHANGED <<treeItems, blobIdx>>
          ELSE /\ treeItems' = Append(treeItems, TreeItem(themeFiles[blobIdx].key, resp.sha))
               /\ Fetch(CreateTree(baseTreeSha, treeItems'), "await_tree")
               /\ UNCHANGED blobIdx
  /\ UNCHANGED <<pluginVars, cfg, call, refs0, themeFiles, candidateIdx, baseBranch, baseSha,
                 featureBranch, refCreated, attempt, baseTreeSha, newTreeSha,
                 newCommitSha>>

\* a blob creation is answered (github-service.ts:223-254)
RecvBlob ==
  /\ pc = "await_blob"
  /\ \E resp \in Responses(LastRequest) :
       /\ ServerEffect(LastRequest, resp)
       /\ IF resp.status = 0
          THEN /\ PushThrows("fetch failed", 0)
               /\ UNCHANGED <<treeItems, blobIdx>>
          ELSE IF ~ok(resp)
          THEN /\ PushThrows("Failed to create blob", resp.status)
               /\ UNCHANGED <<treeItems, blobIdx>>
          ELSE /\ treeItems' = Append(treeItems, TreeItem(themeFiles[blobIdx].key, resp.sha))
               /\ IF blobIdx < Len(themeFiles)
                  THEN /\ blobIdx' = blobIdx + 1
                       /\ Fetch(CreateBlob(themeFiles[blobIdx + 1].content), "await_blob")
                  ELSE /\ Fetch(CreateTree(baseTreeSha, treeItems'), "await_tree")
                       /\ UNCHANGED blobIdx
  /\ UNCHANGED <<pluginVars, cfg, call, refs0, themeFiles, candidateIdx, baseBranch, baseSha,
                 featureBranch, refCreated, attempt, baseTreeSha, newTreeSha,
                 newCommitSha>>

\* RecvTree with a retry of a refused tree creation, which the code of
\* github-service.ts:256-260 does not have
RecvTree_RetryOnce ==
  /\ pc = "await_tree"
  /\ \E resp \in Responses(LastRequest) :
       /\ ServerEffect(LastRequest, resp)
       /\ IF resp.status = 0
          THEN /\ PushThrows("fetch failed", 0)
               /\ UNCHANGED newTreeSha
          ELSE IF ~ok(resp)
          THEN /\ IF Cardinality({i \in DOMAIN reqLog : reqLog[i].op = "POST_tree"}) < 2
                  THEN Fetch(CreateTree(baseTreeSha, treeItems), "await_tree")
                  ELSE PushThrows("Failed to create tree", resp.status)
               /\ UNCHANGED newTreeSha
          ELSE /\ newTreeSha' = resp.sha
               /\ Fetch(CreateCommit(resp.sha, baseSha, baseBranch), "await_newCommit")
  /\ UNCHANGED <<pluginVars, cfg, call, refs0, themeFiles, candidateIdx, baseBranch, baseSha,
                 featureBranch, refCreated, attempt, baseTreeSha, treeItems,
                 blobIdx, newCommitSha>>

\* the tree creation is answered (github-service.ts:256-287)
RecvTree ==
  /\ pc = "await_tree"
  /\ \E resp \in Responses(LastRequest) :
       /\ ServerEffect(LastRequest, resp)
       /\ IF resp.status = 0
          THEN /\ PushThrows("fetch failed", 0)
               /\ UNCHANGED newTreeSha
          ELSE IF ~ok(resp)
          THEN /\ PushThrows("Failed to create tree", resp.status)
               /\ UNCHANGED newTreeSha
          ELSE /\ newTreeSha' = resp.sha
               /\ Fetch(CreateCommit(resp.sha, baseSha, baseBranch), "await_newCommit")
  /\ UNCHANGED <<pluginVars, cfg, call, refs0, themeFiles, candidateIdx, baseBranch, baseSha,
                 featureBranch, refCreated, attempt, baseTreeSha, treeItems,
                 blobIdx, newCommitSha>>

\* RecvNewCommit without the check of github-service.ts:289-293: a refused
\* commit creation is read as if it had succeeded
RecvNewCommit_NoOkCheck ==
  /\ pc = "await_newCommit"
  /\ \E resp \in Responses(LastRequest) :
       /\ ServerEffect(LastRequest, resp)
       /\ IF resp.status = 0
          THEN /\ PushThrows("fetch failed", 0)
               /\ UNCHANGED newCommitSha
          ELSE /\ newCommitSha' = resp.sha
               /\ Fetch(UpdateRef(featureBranch, resp.sha), "await_updateRef")
  /\ UNCHANGED <<pluginVars, cfg, call, refs0, themeFiles, candidateIdx, baseBranch, baseSha,
                 featureBranch, refCreated, attempt, baseTreeSha, treeItems,
                 blobIdx, newTreeSha>>

\* the commit creation is answered (github-service.ts:289-314)
RecvNewCommit ==
  /\ pc = "await_newCommit"
  /\ \E resp \in Responses(LastRequest) :
       /\ ServerEffect(LastRequest, resp)
       /\ IF resp.status = 0
          THEN /\ PushThrows("fetch failed", 0)
               /\ UNCHANGED newCommitSha
          ELSE IF ~ok(resp)
          THEN /\ PushThrows("Failed to create commit", resp.status)
               /\ UNCHANGED newCommitSha
          ELSE /\ newCommitSha' = resp.sha
               /\ Fetch(UpdateRef(featureBranch, resp.sha), "await_updateRef")
  /\ UNCHANGED <<pluginVars, cfg, call, refs0, themeFiles, candidateIdx, baseBranch, baseSha,
                 featureBranch, refCreated, attempt, baseTreeSha, treeItems,
                 blobIdx, newTreeSha>>

\* the ref update is answered (github-service.ts:316-328)
RecvUpdateRef ==
  /\ pc = "await_updateRef"
  /\ \E resp \in Responses(LastRequest) :
       /\ ServerEffect(LastRequest, resp)
       /\ IF resp.status = 0
          THEN PushThrows("fetch failed", 0)
          ELSE IF ~ok(resp)
          THEN PushThrows("Failed to update branch", resp.status)
          ELSE PushReturns(Result(TRUE, <<"", "Successfully pushed", Len(themeFiles)>>,
                                  newCommitSha))
  /\ UNCHANGED <<pluginVars, cfg, call, refs0, localVars>>

Next ==
  \/ CallPush
  \/ ExportToGitHub
  \/ ExportResume
  \/ RecvBaseRef
  \/ RecvCreateRef
  \/ RecvBaseCommit
  \/ RecvBlob
  \/ RecvTree
  \/ RecvNewCommit
  \/ RecvUpdateRef

Spec == Init /\ [][Next]_vars

TypeOK ==
  /\ pc \in {"idle", "await_baseRef", "await_createRef", "await_baseCommit",
             "await_blob", "await_tree", "await_newCommit", "await_updateRef",
             "export_resume", "done"}
  /\ Len(respLog) \in {Len(reqLog), Len(reqLog) - 1}
  /\ thrown \in BOOLEAN

\* ------------------------------------------------ vocabulary of the claims
RequestsOf(op) == {i \in DOMAIN reqLog : reqLog[i].op = op}
IsAnswered(i) == i \in DOMAIN respLog

\* the result the caller of the invoked function gets
Outcome == IF call.fn = "exportToGitHub" THEN exportResult ELSE githubResult
Failed == Outcome.returned /\ ~Outcome.success
Succeeded == Outcome.returned /\ Outcome.success

CreatedCommitShas == {commits[i].sha : i \in DOMAIN commits}
CreatedTreeShas == {trees[i].sha : i \in DOMAIN trees}
CreatedShas == CreatedCommitShas \cup CreatedTreeShas \cup blobs

\* a ref update the repository has carried out
AppliedUpdate(i) ==
  /\ reqLog[i].op = "PATCH_ref"
  /\ IsAnswered(i)
  /\ respLog[i].applied

\* an answer the protocol does not survive: any refusal, except a base-ref
\* lookup that leaves a candidate to try and a name collision that leaves an
\* attempt to make
FatalAnswer(i) ==
  /\ IsAnswered(i)
  /\ ~ok(respLog[i])
  /\ ~ (/\ reqLog[i].op = "GET_ref"
        /\ respLog[i].status # 0
        /\ reqLog[i].branch # baseBranchCandidates[Len(baseBranchCandidates)])
  /\ ~ (/\ reqLog[i].op = "POST_ref"
        /\ respLog[i].status = 422
        /\ respLog[i].alreadyExists
        /\ reqLog[i].ref # BranchNameAt(FeatureBranchBase, MaxRefAttempts - 1))

\* ------------------------------------------------------------------- C1
\* C1: a branch ref points at an object this execution created only once a
\* ref update carrying that object was carried out for that branch; and when
\* a step before the ref update fails, no ref update is ever issued and every
\* ref the execution added still points at the base commit it resolved.
C1_NoRefBeforeUpdate ==
  /\ \A b \in AllBranches :
       refs[b] \in CreatedShas =>
         \E i \in DOMAIN reqLog :
           AppliedUpdate(i) /\ reqLog[i].branch = b /\ reqLog[i].sha = refs[b]
  /\ (\E i \in DOMAIN reqLog : reqLog[i].op # "PATCH_ref" /\ FatalAnswer(i)) =>
       /\ RequestsOf("PATCH_ref") = {}
       /\ \A b \in AllBranches :
            refs[b] # refs0[b] => refs[b] = baseSha /\ baseSha = refs0[baseBranch]

\* the tree creation was refused after the feature branch had been created
C1_Witness ==
  /\ pc = "done"
  /\ Failed
  /\ refCreated
  /\ reqLog[Len(reqLog)].op = "POST_tree"
  /\ refs[featureBranch] = baseSha
  /\ refs0[featureBranch] = Null

\* ------------------------------------------------------------------- C2
TreeObject(sha) == CHOOSE t \in {trees[i] : i \in DOMAIN trees} : t.sha = sha
CommitObject(sha) == CHOOSE c \in {commits[i] : i \in DOMAIN commits} : c.sha = sha

\* the tree of a created commit lists exactly the export's theme files
HoldsEveryThemeFile(commitSha) ==
  /\ commitSha \in CreatedCommitShas
  /\ CommitObject(commitSha).tree \in CreatedTreeShas
  /\ LET entries == TreeObject(CommitObject(commitSha).tree).tree IN
       /\ Len(entries) = Len(themeFiles)
       /\ \A k \in DOMAIN themeFiles :
            \E e \in DOMAIN entries :
              /\ entries[e].path = <<cfg.path, themeFiles[k].key, "variables.css">>
              /\ entries[e].sha =
                   BlobShaOf(IF themeFiles[k].content = <<>>
                             THEN NoVariablesPlaceholder ELSE themeFiles[k].content)
              /\ entries[e].sha \in blobs

\* C2: an export never partially applies: at most one commit is created, and
\* a branch that moved or appeared either points at the base commit or at
\* that one commit, whose tree has an entry for every generated theme file.
C2_AllOrNothing ==
  /\ Len(commits) <= 1
  /\ \A b \in AllBranches :
       refs[b] # refs0[b] =>
         \/ refs[b] = baseSha /\ baseSha = refs0[baseBranch]
         \/ HoldsEveryThemeFile(refs[b])

\* a two-theme export landed: the feature branch is at the one new commit
C2_Witness ==
  /\ Succeeded
  /\ Len(themeFiles) = 2
  /\ Len(commits) = 1
  /\ refs[featureBranch] = commits[1].sha
  /\ HoldsEveryThemeFile(refs[featureBranch])

\* ------------------------------------------------------------------- C3
\* the step of the protocol a request belongs to
StepOf(op) ==
  CASE op = "GET_ref" -> 1
    [] op = "POST_ref" -> 2
    [] op = "GET_commit" -> 3
    [] op = "POST_blob" -> 4
    [] op = "POST_tree" -> 5
    [] op = "POST_commit" -> 6
    [] op = "PATCH_ref" -> 7

\* C3: requests are issued in the order of the steps (base ref lookups,
\* feature-ref creation, base commit read, blobs, tree, commit, ref update),
\* none before every earlier step has had a request, none before the
\* previous request was answered; and the base commit read, the tree
\* creation, the commit creation and the ref update are issued at most once,
\* a blob creation at most once per theme file.
C3_StrictSequence ==
  /\ \A i, j \in DOMAIN reqLog :
       i < j => StepOf(reqLog[i].op) <= StepOf(reqLog[j].op)
  /\ \A i \in DOMAIN reqLog :
       \A step \in 1..(StepOf(reqLog[i].op) - 1) :
         \E j \in 1..(i - 1) : StepOf(reqLog[j].op) = step
  /\ \A i \in DOMAIN reqLog : i > 1 => IsAnswered(i - 1)
  /\ \A op \in {"GET_commit", "POST_tree", "POST_commit", "PATCH_ref"} :
       Cardinality(RequestsOf(op)) <= 1
  /\ Cardinality(RequestsOf("POST_blob")) <= Len(themeFiles)

\* a whole protocol run, with a fallback to main and one name collision
C3_Witness ==
  /\ githubResult.success
  /\ Cardinality(RequestsOf("GET_ref")) = 2
  /\ Cardinality(RequestsOf("POST_ref")) = 2
  /\ Cardinality(RequestsOf("POST_blob")) = 2
  /\ RequestsOf("PATCH_ref") = {Len(reqLog)}
  /\ Len(respLog) = Len(reqLog)

\* ------------------------------------------------------------------- C4
\* the refs an invocation changed or added
ChangedRefs == {b \in AllBranches : refs[b] # refs0[b]}

\* C4 as claimed: a failed export leaves the set of branch refs, and the
\* commit of each, as they were.
C4_Original == Failed => refs = refs0

\* C4, amended: when an export fails, every branch ref that existed before
\* still points at the same commit, and the only change is at most one added
\* ref, the feature branch whose creation this invocation requested, which
\* points at the base commit unless the ref update was carried out.
C4_ExistingRefsUntouched ==
  Failed =>
    /\ \A b \in AllBranches : refs0[b] # Null => refs[b] = refs0[b]
    /\ Cardinality(ChangedRefs) <= 1
    /\ \A b \in ChangedRefs :
         /\ \E i \in RequestsOf("POST_ref") :
              reqLog[i].ref = b /\ IsAnswered(i) /\ respLog[i].applied
         /\ (\A i \in DOMAIN reqLog : ~AppliedUpdate(i)) =>
              refs[b] = baseSha /\ baseSha = refs0[baseBranch]

\* the export failed at the read of the base commit and left its branch
C4_Witness ==
  /\ pc = "done"
  /\ Failed
  /\ refCreated
  /\ reqLog[Len(reqLog)].op = "GET_commit"
  /\ ChangedRefs = {featureBranch}
  /\ refs[featureBranch] = baseSha

\* ------------------------------------------------------------------- C5
\* C5: the base is looked up as master, then main; main only after master's
\* lookup was refused; the first lookup answered ok gives the base branch and
\* base SHA and ends the lookups; with no lookup answered ok nothing but
\* lookups is ever requested and the push returns a failure.
C5_BaseResolution ==
  LET lookups == RequestsOf("GET_ref") IN
  /\ \A i \in lookups : i <= 2 /\ reqLog[i].branch = <<"master", "main">>[i]
  /\ 2 \in lookups => ~ok(respLog[1]) /\ respLog[1].status # 0
  /\ \A i \in lookups :
       (IsAnswered(i) /\ ok(respLog[i])) =>
         /\ \A j \in lookups : j <= i
         /\ baseBranch = reqLog[i].branch
         /\ baseSha = respLog[i].sha
         /\ baseSha = refs0[baseBranch]
  /\ (\A i \in lookups : IsAnswered(i) => ~ok(respLog[i])) =>
       /\ \A i \in DOMAIN reqLog : reqLog[i].op = "GET_ref"
       /\ baseSha = Null
       /\ (IsAnswered(2) \/ (IsAnswered(1) /\ respLog[1].status = 0)) =>
            githubResult.returned /\ ~githubResult.success

\* master did not resolve, main did and became the base
C5_Witness ==
  /\ Cardinality(RequestsOf("GET_ref")) = 2
  /\ baseBranch = "main"
  /\ baseSha = "commit_main"
  /\ refs0["master"] = Null
  /\ refCreated

\* ------------------------------------------------------------------- C6
\* creation requests issued before request i
CreationsBefore(i) == Cardinality({j \in RequestsOf("POST_ref") : j < i})

\* C6: at most 3 branch creations are requested, for the base name, then
\* the name with -1, then with -2, each at the base SHA; a creation follows
\* another only on a 422 "already exists" answer; after 3 such answers the
\* push returns a failure and requests nothing more.
C6_BoundedCreation ==
  LET creations == RequestsOf("POST_ref") IN
  /\ Cardinality(creations) <= 3
  /\ \A i \in creations :
       /\ reqLog[i].ref = <<"feat/figma-variables-TS", "feat/figma-variables-TS-1",
                            "feat/figma-variables-TS-2">>[CreationsBefore(i) + 1]
       /\ reqLog[i].sha = baseSha
       /\ (i + 1) \in creations =>
            respLog[i].status = 422 /\ respLog[i].alreadyExists
  /\ (/\ Cardinality(creations) = 3
      /\ \A i \in creations :
           IsAnswered(i) /\ respLog[i].status = 422 /\ respLog[i].alreadyExists) =>
       /\ githubResult.returned /\ ~githubResult.success
       /\ reqLog[Len(reqLog)].op = "POST_ref"

\* the three names were all taken
C6_Witness ==
  /\ Cardinality(RequestsOf("POST_ref")) = 3
  /\ attempt = 3
  /\ ~refCreated
  /\ githubResult.returned /\ ~githubResult.success
  /\ githubResult.message[2] = "Failed to create feature branch after multiple attempts"

\* ------------------------------------------------------------------- C7
\* blob creations the repository answered ok
BlobsCreated == {i \in RequestsOf("POST_blob") : IsAnswered(i) /\ ok(respLog[i])}

\* C7: a created commit has exactly one parent, the base SHA resolved from
\* the base ref, which is the SHA the feature branch was created at; its tree
\* was created with base_tree the tree of that base commit and with one
\* entry per blob created, each naming a created blob.
C7_CommitShape ==
  \A c \in DOMAIN commits :
    /\ commits[c].parents = <<baseSha>>
    /\ baseSha = refs0[baseBranch]
    /\ \E i \in RequestsOf("POST_ref") :
         IsAnswered(i) /\ ok(respLog[i]) /\ reqLog[i].sha = baseSha
    /\ commits[c].tree \in CreatedTreeShas
    /\ LET t == TreeObject(commits[c].tree) IN
         /\ t.base_tree = BaseTreeOf(refs0[baseBranch])
         /\ Len(t.tree) = Cardinality(BlobsCreated)
         /\ \A e \in DOMAIN t.tree : t.tree[e].sha \in blobs /\ t.tree[e].type = "blob"

\* a commit on top of master's commit, carrying two files
C7_Witness ==
  /\ Len(commits) = 1
  /\ commits[1].parents = <<"commit_master">>
  /\ TreeObject(commits[1].tree).base_tree = "tree_master"
  /\ Len(TreeObject(commits[1].tree).tree) = 2

\* ------------------------------------------------------------------- C8
\* C8: every ref update is non-forcing, names the branch whose creation this
\* export saw succeed, suffix included, and carries the commit this export
\* created; no ref that existed before is ever changed.
C8_UpdateTarget ==
  /\ \A i \in RequestsOf("PATCH_ref") :
       /\ reqLog[i].force = FALSE
       /\ \E j \in RequestsOf("POST_ref") :
            j < i /\ ok(respLog[j]) /\ reqLog[j].ref = reqLog[i].branch
       /\ reqLog[i].sha \in CreatedCommitShas
  /\ \A b \in AllBranches : refs0[b] # Null => refs[b] = refs0[b]

\* after two collisions the update went to the branch with suffix -2
C8_Witness ==
  /\ \E i \in RequestsOf("PATCH_ref") :
       AppliedUpdate(i) /\ reqLog[i].branch = "feat/figma-variables-TS-2"
  /\ refs["feat/figma-variables-TS-2"] \in CreatedCommitShas

\* ------------------------------------------------------------------- C9
\* an export of the themes Light and Dark, three variables each, in which
\* every request was answered ok
C9_Case ==
  /\ call.fn = "exportToGitHub"
  /\ call.data.variablesByTheme =
       << [theme |-> Str_Light, nVars |-> 3], [theme |-> Str_Dark, nVars |-> 3] >>
  /\ pc = "done"
  /\ reqLog # <<>>
  /\ \A i \in DOMAIN reqLog : IsAnswered(i) /\ ok(respLog[i])

C9_Counts(nFiles) ==
  /\ Cardinality(RequestsOf("POST_ref")) = 1
  /\ Cardinality(RequestsOf("POST_blob")) = nFiles
  /\ Cardinality(RequestsOf("POST_tree")) = 1
  /\ \A i \in RequestsOf("POST_tree") : Len(reqLog[i].tree) = nFiles
  /\ Cardinality(RequestsOf("POST_commit")) = 1
  /\ \A i \in RequestsOf("POST_commit") : Len(reqLog[i].parents) = 1
  /\ Cardinality(RequestsOf("PATCH_ref")) = 1

\* C9 as claimed: that export issues 1 branch creation, 6 blob creations,
\* 1 tree creation with 6 entries, 1 commit creation with one parent and
\* 1 ref update.
C9_Original == C9_Case => C9_Counts(6)

\* C9, amended: that export issues 1 branch creation, 2 blob creations (one
\* variables.css per theme), 1 tree creation with 2 entries, 1 commit
\* creation with one parent and 1 ref update.
C9_OneFilePerTheme == C9_Case => C9_Counts(2)

C9_Witness == C9_Case /\ exportResult.success

\* ------------------------------------------------------------------ C10
\* C10: no error leaves pushCssThemesToGitHub or exportToGitHub; a finished
\* invocation has returned a result with a success flag and a message; and
\* success is returned only after the ref update was answered ok.
C10_ResultNeverThrown ==
  /\ ~thrown
  /\ pc = "done" =>
       /\ Outcome.returned
       /\ Outcome.success \in BOOLEAN
       /\ Len(Outcome.message) = 3
  /\ pc = "export_resume" => githubResult.returned
  /\ (githubResult.success \/ exportResult.success) =>
       /\ reqLog # <<>>
       /\ reqLog[Len(reqLog)].op = "PATCH_ref"
       /\ IsAnswered(Len(reqLog))
       /\ ok(respLog[Len(reqLog)])

\* a fetch rejected during the export and the caller got a failure result
C10_Witness ==
  /\ call.fn = "exportToGitHub"
  /\ pc = "done"
  /\ respLog # <<>>
  /\ respLog[Len(respLog)].status = 0
  /\ exportResult = Result(FALSE, <<"Error: ", "fetch failed", 0>>, Null)

\* ------------------------------------------------------------------ C11
\* C11: when exportToGitHub is called with an empty owner, repo, path or
\* token, it returns the configuration failure and no request is ever issued.
C11_ConfigBeforeNetwork ==
  (/\ call.fn = "exportToGitHub"
   /\ (cfg.owner = "" \/ cfg.repo = "" \/ cfg.path = "" \/ cfg.token = "")) =>
    /\ reqLog = <<>>
    /\ pc \in {"idle", "done"}
    /\ pc = "done" =>
         /\ ~exportResult.success
         /\ exportResult.message[2] = "GitHub configuration is incomplete"
         /\ ~githubResult.returned

\* only the token was missing, and the export was refused
C11_Witness ==
  /\ call.fn = "exportToGitHub"
  /\ ~call.data.isNull
  /\ cfg.owner # "" /\ cfg.repo # "" /\ cfg.path # "" /\ cfg.token = ""
  /\ pc = "done"
  /\ exportResult = Result(FALSE, <<"", "GitHub configuration is incomplete", 1>>, Null)
  /\ reqLog = <<>>

\* ------------------------------------------------------------------ C12
\* a response with an error status (a rejected fetch has none)
ErrorStatus(i) == IsAnswered(i) /\ ~ok(respLog[i]) /\ respLog[i].status # 0

PushFailedWith(text) ==
  /\ githubResult.returned
  /\ ~githubResult.success
  /\ githubResult.message[2] = text

Retryable422(i) ==
  reqLog[i].op = "POST_ref" /\ respLog[i].status = 422 /\ respLog[i].alreadyExists

\* C12 as claimed: at whichever step it comes, a 401 or 403 gives the
\* authentication/authorization failure, a 404 gives "repository not found",
\* and any other error status but the retryable 422 aborts the operation.
C12_Original ==
  \A i \in DOMAIN reqLog :
    (ErrorStatus(i) /\ ~Retryable422(i)) =>
      /\ githubResult.returned /\ ~githubResult.success
      /\ i = Len(reqLog)
      /\ respLog[i].status = 401 =>
           githubResult.message[2] = "Authentication Failed (401 Unauthorized)"
      /\ respLog[i].status = 403 =>
           githubResult.message[2] = "GitHub Access Denied (403 Forbidden)"
      /\ respLog[i].status = 404 =>
           githubResult.message[2] = "Repository Not Found (404)"

\* the failure text of a step that does not look at the status
GenericFailure(op) ==
  CASE op = "GET_commit" -> "Failed to get commit"
    [] op = "POST_blob" -> "Failed to create blob"
    [] op = "POST_tree" -> "Failed to create tree"
    [] op = "POST_commit" -> "Failed to create commit"
    [] op = "PATCH_ref" -> "Failed to update branch"

\* C12, amended: the status is classified at the feature-branch creation
\* only: there a 401 gives the authentication failure, a 403 the access
\* denied failure, a 404 "repository not found", any other error status but
\* the retryable 422 a creation failure.  An error status at the base commit
\* read, a blob, the tree, the commit or the ref update aborts the operation
\* with that step's failure and the status, whatever the status is.  An error
\* status at the lookup of master is not fatal (main is looked up next); at
\* the lookup of main it aborts with "failed to resolve base branch".
C12_ClassifiedAtCreation ==
  \A i \in DOMAIN reqLog :
    (ErrorStatus(i) /\ ~Retryable422(i)) =>
      IF reqLog[i].op = "GET_ref" /\ reqLog[i].branch = "master"
      THEN /\ Len(reqLog) > i
           /\ reqLog[i + 1] = [op |-> "GET_ref", branch |-> "main"]
      ELSE /\ i = Len(reqLog)
           /\ githubResult.returned /\ ~githubResult.success
           /\ githubResult.message[2] =
                IF reqLog[i].op = "GET_ref" THEN "Failed to resolve base branch"
                ELSE IF reqLog[i].op # "POST_ref" THEN GenericFailure(reqLog[i].op)
                ELSE IF respLog[i].status = 401
                     THEN "Authentication Failed (401 Unauthorized)"
                ELSE IF respLog[i].status = 403
                     THEN "GitHub Access Denied (403 Forbidden)"
                ELSE IF respLog[i].status = 404 THEN "Repository Not Found (404)"
                ELSE "Failed to create branch"
           /\ reqLog[i].op \notin {"GET_ref", "POST_ref"} =>
                githubResult.message[3] = respLog[i].status

\* the creation of the feature branch was answered 403
C12_Witness ==
  /\ reqLog # <<>>
  /\ reqLog[Len(reqLog)].op = "POST_ref"
  /\ IsAnswered(Len(reqLog))
  /\ respLog[Len(reqLog)].status = 403
  /\ PushFailedWith("GitHub Access Denied (403 Forbidden)")

\* ------------------------------------------- the message handler, main.ts
\* The awaits of one pushCssThemesToGitHub run, in the order of
\* github-service.ts:58-314
ProtocolPositions ==
  <<"await_baseRef", "await_createRef", "await_baseCommit", "await_blob",
    "await_tree", "await_newCommit", "await_updateRef">>

\* the awaits inside a loop: the for over the base candidates (56-70), the
\* while over the branch names (101-175), the for over the files (206-236)
RepeatablePositions == {"await_baseRef", "await_createRef", "await_blob"}

InProtocol(e) == \E i \in DOMAIN ProtocolPositions : exports[e] = ProtocolPositions[i]

PositionAfter(position) ==
  LET i == CHOOSE j \in DOMAIN ProtocolPositions : ProtocolPositions[j] = position
  IN IF i = Len(ProtocolPositions) THEN "export-success" ELSE ProtocolPositions[i + 1]

\* GitHub settings the UI can send with "update-config"
ConfigPool == [owner : {"", "acme"}, repo : {"", "tokens"},
               path : {"", "src/styles"}, token : {"", "ghp_x"}]

\* case "convert-variables" with the flag cleared by the rejected request
ConvertVariables_ClearsFlag ==
  /\ converted < MaxConversions
  /\ IF isRunning
     THEN /\ posted' = "convert-error"
          /\ lastError' = "Plugin already running"
          /\ isRunning' = FALSE
          /\ UNCHANGED inFlight
     ELSE /\ isRunning' = TRUE
          /\ inFlight' = inFlight + 1
          /\ UNCHANGED <<posted, lastError>>
  /\ UNCHANGED <<cfg, pushVars, resolveVars, detectVars, serviceVars, lastConversionResult,
                 exports, converted, exported>>

\* case "convert-variables" up to the await in handleConvertVariables
\* (main.ts:243-245, 85-95); the throw of line 88 reaches the catch at 260
ConvertVariables ==
  /\ converted < MaxConversions
  /\ IF isRunning
     THEN /\ posted' = "convert-error"
          /\ lastError' = "Plugin already running"
          /\ UNCHANGED <<isRunning, inFlight>>
     ELSE /\ isRunning' = TRUE
          /\ inFlight' = inFlight + 1
          /\ UNCHANGED <<posted, lastError>>
  /\ UNCHANGED <<cfg, pushVars, resolveVars, detectVars, serviceVars, lastConversionResult,
                 exports, converted, exported>>

\* convertVariablesToCSS settles, a rejected call clearing the cached result
ConvertSettles_ClearsCache ==
  /\ inFlight > 0
  /\ \E fulfilled \in BOOLEAN :
       IF fulfilled
       THEN /\ converted' = converted + 1
            /\ lastConversionResult' = ConversionResult(converted')
            /\ posted' = "convert-success"
            /\ UNCHANGED lastError
       ELSE /\ posted' = "convert-error"
            /\ lastError' = "conversion failed"
            /\ lastConversionResult' = Null
            /\ UNCHANGED converted
  /\ inFlight' = inFlight - 1
  /\ isRunning' = FALSE
  /\ UNCHANGED <<cfg, pushVars, resolveVars, detectVars, serviceVars, exports, exported>>

\* convertVariablesToCSS settles (main.ts:94-99, 252-268)
ConvertSettles ==
  /\ inFlight > 0
  /\ \E fulfilled \in BOOLEAN :
       IF fulfilled
       THEN /\ converted' = converted + 1
            /\ lastConversionResult' = ConversionResult(converted')
            /\ posted' = "convert-success"
            /\ UNCHANGED lastError
       ELSE /\ posted' = "convert-error"
            /\ lastError' = "conversion failed"
            /\ UNCHANGED <<lastConversionResult, converted>>
  /\ inFlight' = inFlight - 1
  /\ isRunning' = FALSE
  /\ UNCHANGED <<cfg, pushVars, resolveVars, detectVars, serviceVars, exports, exported>>

\* case "export-github" up to the first await of the export (main.ts:273-277,
\* 105-110; export.service.ts:27-56; github-service.ts:35-58)
HandleExportToGitHub(e) ==
  /\ exports[e] = "none"
  /\ IF lastConversionResult = Null \/ MissingConfig # {}
     THEN /\ exports' = [exports EXCEPT ![e] = "export-error"]
          /\ posted' = "export-error"
     ELSE /\ exports' = [exports EXCEPT ![e] = ProtocolPositions[1]]
          /\ UNCHANGED posted
  /\ exported' = [exported EXCEPT ![e] = lastConversionResult]
  /\ UNCHANGED <<cfg, pushVars, resolveVars, detectVars, serviceVars, isRunning,
                 lastConversionResult, inFlight, converted, lastError>>

\* one fetch of export e is answered: the run goes on to its next await,
\* repeats the await of its loop, or ends (main.ts:278-297)
ExportAnswered(e) ==
  /\ InProtocol(e)
  /\ \E outcome \in {"next", "again", "failed"} :
       /\ outcome = "again" => exports[e] \in RepeatablePositions
       /\ LET position == CASE outcome = "next" -> PositionAfter(exports[e])
                            [] outcome = "again" -> exports[e]
                            [] outcome = "failed" -> "export-error"
          IN /\ exports' = [exports EXCEPT ![e] = position]
             /\ posted' = IF position \in {"export-success", "export-error"}
                           THEN position ELSE posted
  /\ UNCHANGED <<cfg, pushVars, resolveVars, detectVars, serviceVars, isRunning,
                 lastConversionResult, inFlight, converted, exported, lastError>>

\* case "update-config" (main.ts:301-314)
UpdateConfig ==
  /\ \E githubConfig \in ConfigPool : cfg' = githubConfig
  /\ posted' = "config-updated"
  /\ UNCHANGED <<pushVars, resolveVars, detectVars, serviceVars, isRunning, lastConversionResult,
                 exports, inFlight, converted, exported, lastError>>

InitMain ==
  /\ PushInit
  /\ MainInit
  /\ ResolveIdle
  /\ DetectIdle
  /\ ServiceIdle
  /\ call = CHOOSE c \in Calls : c.fn = "exportToGitHub"
  /\ refs = InitialRefs(TRUE, TRUE, 0)

NextMain ==
  \/ ConvertVariables
  \/ ConvertSettles
  \/ \E e \in ExportIds : HandleExportToGitHub(e)
  \/ \E e \in ExportIds : ExportAnswered(e)
  \/ UpdateConfig

SpecMain == InitMain /\ [][NextMain]_vars

\* ------------------------------------- generateCSSValue as a state machine
\* JavaScript's falsy values among the raw values
Falsy(value) ==
  \/ value.kind = "undefined"
  \/ value.kind = "number" /\ value.n = 0
  \/ value.kind = "string" /\ value.s = <<>>

\* Object.keys(valuesByMode)
Keys(id) == {m \in ModeIds : graph[id].valuesByMode[m] # Undefined}
FirstKey(id) == Modes[CHOOSE i \in DOMAIN Modes :
                        /\ Modes[i] \in Keys(id)
                        /\ \A j \in DOMAIN Modes : Modes[j] \in Keys(id) => i <= j]

\* one fallback for every type
Fallback_Empty(resolvedType) == ""

\* the fallback constants of convertColorValue, convertFloatValue and
\* convertStringValue (css-value-generator.service.ts:25, 80, 130)
Fallback(resolvedType) ==
  CASE resolvedType = "COLOR" -> FALLBACK_OKLCH_COLOR
    [] resolvedType = "FLOAT" -> "0"
    [] resolvedType = "STRING" -> "\"\""

\* the switch of resolveAliasToRawValue (value-converter.service.ts:181-196)
\* and the last statement of each convert*Value: the text of a literal
ConvertLiteral(id, value) ==
  CASE graph[id].resolvedType = "COLOR" -> rgbToOklch(colorCache, value)
    [] graph[id].resolvedType = "FLOAT" -> safeFloatConversion(value.n, NameOf(id))
    [] graph[id].resolvedType = "STRING" -> safeStringConversion(value.s)

\* the switch of resolveAliasToRawValue falling to its default branch,
\* String(rawValue)
AliasedText_Default(id, value) == "[object Object]"

\* what resolveAliasToRawValue returns for a literal of the alias target
\* (value-converter.service.ts:181-196)
AliasedText(id, value) == ConvertLiteral(id, value)

CacheAfter(id, value) ==
  IF graph[id].resolvedType = "COLOR" THEN cacheResult(colorCache, value)
  ELSE colorCache

\* generateCSSValue returns
Returns(req, text) ==
  /\ output' = text
  /\ rpc' = "done"
  /\ probe' = IF probe.set THEN probe
              ELSE [set |-> TRUE, request |-> req, output |-> text]

\* the call suspends at getVariableByIdAsync(id)
Awaits(id) ==
  /\ fetchId' = id
  /\ rpc' = "fetching"
  /\ output' = ""
  /\ UNCHANGED <<probe, colorCache>>

\* the mode of the first read, css-value-generator.service.ts:28
TargetMode(variable, modeId) ==
  IF modeId = "undefined" THEN FirstKey(variable) ELSE modeId

\* generateCSSValue up to its first await or its return
\* (css-value-generator.service.ts:173-213 with 17-66, 72-116, 122-167)
GenerateCSSValue(variable, modeId) ==
  /\ rpc \in {"idle", "done"}
  /\ request' = [variable |-> variable, modeId |-> modeId]
  /\ IF variable = "undefined"
     THEN /\ Returns(request', "")
          /\ targetModeId' = "undefined"
          /\ fetchId' = Null
          /\ reads' = <<>>
          /\ UNCHANGED colorCache
     ELSE IF Keys(variable) = {}
     THEN /\ Returns(request', Fallback(graph[variable].resolvedType))
          /\ targetModeId' = "undefined"
          /\ fetchId' = Null
          /\ reads' = <<>>
          /\ UNCHANGED colorCache
     ELSE LET mode == TargetMode(variable, modeId)
              rawValue == graph[variable].valuesByMode[mode]
          IN /\ targetModeId' = mode
             /\ reads' = <<[id |-> variable, mode |-> mode]>>
             /\ IF rawValue.kind = "alias"
                THEN Awaits(rawValue.id)
                ELSE /\ fetchId' = Null
                     /\ IF \/ rawValue = Undefined
                           \/ graph[variable].resolvedType = "STRING" /\ Falsy(rawValue)
                        THEN /\ Returns(request', Fallback(graph[variable].resolvedType))
                             /\ UNCHANGED colorCache
                        ELSE /\ Returns(request', ConvertLiteral(variable, rawValue))
                             /\ colorCache' = CacheAfter(variable, rawValue)
  /\ UNCHANGED <<cfg, pushVars, mainVars, detectVars, serviceVars, graph>>

\* the mode of the reads of resolveAliasToRawValue, were it the target's
\* first mode
AliasMode_FirstOfTarget(target) == IF Keys(target) = {} THEN targetModeId ELSE FirstKey(target)

\* the mode of the reads of resolveAliasToRawValue: its modeId argument,
\* which is targetModeId at every depth (css-value-generator.service.ts:44,
\* value-converter.service.ts:175)
AliasMode(target) == targetModeId

\* getVariableByIdAsync settles and the call runs on to its next await or its
\* return (css-value-generator.service.ts:43-55; value-converter.service.ts:
\* 157-202)
GetVariableSettles ==
  /\ rpc = "fetching"
  /\ Len(reads) < MaxHops
  /\ LET referrerType == graph[request.variable].resolvedType
     IN IF fetchId \notin VarIds
        THEN /\ Returns(request, Fallback(referrerType))
             /\ UNCHANGED <<reads, fetchId, colorCache>>
        ELSE LET mode == AliasMode(fetchId)
                 rawValue == graph[fetchId].valuesByMode[mode]
             IN IF Falsy(rawValue)
                THEN /\ Returns(request, Fallback(referrerType))
                     /\ UNCHANGED <<reads, fetchId, colorCache>>
                ELSE /\ reads' = Append(reads, [id |-> fetchId, mode |-> mode])
                     /\ IF rawValue.kind = "alias"
                        THEN Awaits(rawValue.id)
                        ELSE LET resolvedValue == AliasedText(fetchId, rawValue)
                             IN /\ Returns(request, IF resolvedValue # "" THEN resolvedValue
                                                    ELSE Fallback(referrerType))
                                /\ colorCache' = CacheAfter(fetchId, rawValue)
                                /\ UNCHANGED fetchId
  /\ UNCHANGED <<cfg, pushVars, mainVars, detectVars, serviceVars, graph, request, targetModeId>>

\* clearColorCache (utils.ts:174-176)
ClearColorCache ==
  /\ colorCache # {}
  /\ colorCache' = {}
  /\ UNCHANGED <<cfg, pushVars, mainVars, detectVars, serviceVars, graph, request, rpc, targetModeId,
                 fetchId, reads, output, probe>>

InitResolve ==
  /\ PushInit
  /\ call = CHOOSE c \in Calls : c.fn = "exportToGitHub"
  /\ refs = InitialRefs(TRUE, TRUE, 0)
  /\ MissingConfig = {}
  /\ MainInit
  /\ DetectIdle
  /\ ServiceIdle
  /\ ResolveInit
  /\ graph \in GraphPool

NextResolve ==
  \/ \E req \in RequestPool : GenerateCSSValue(req.variable, req.modeId)
  \/ GetVariableSettles
  \/ ClearColorCache

SpecResolve == InitResolve /\ [][NextResolve]_vars

\* ------------------------------------------------------------------- C13
\* C13: while one export is in flight a second export attempt is rejected,
\* so at no time are two export invocations at a step of the commit protocol.
C13_SingleExport ==
  Cardinality({e \in ExportIds : InProtocol(e)}) <= 1

\* ---------------------------------------------- vocabulary of C14 to C18
\* the mode the running call was asked for
RequestedMode ==
  IF request.modeId = "undefined" THEN FirstKey(request.variable) ELSE request.modeId

\* the raw value behind the i-th read of the running call
ReadValue(i) == graph[reads[i].id].valuesByMode[reads[i].mode]

\* the running call returned after following an alias whose target is not in
\* the file or holds no value for the requested mode
EndedAtMissingTarget ==
  /\ rpc = "done"
  /\ reads # <<>>
  /\ LET last == ReadValue(Len(reads))
     IN /\ last.kind = "alias"
        /\ \/ last.id \notin VarIds
           \/ /\ last.id \in VarIds
              /\ graph[last.id].valuesByMode[RequestedMode] = Undefined

\* ------------------------------------------------------------------- C14
\* C14: alias resolution always terminates: no call of generateCSSValue
\* reads the value of a variable id a second time (a revisited id ends the
\* call with the fallback), so the reads of one call are bounded by the
\* number of variables.
C14_NoRevisit ==
  \A i, j \in DOMAIN reads : i # j => reads[i].id # reads[j].id

\* ------------------------------------------------------------------- C15
\* C15: for an alias chain A -> B -> C in which C holds a literal Color for
\* mode M, resolving A in mode M returns the text that resolving C in mode M
\* returned.
C15_ChainEqualsTarget ==
  (/\ rpc = "done"
   /\ probe.set
   /\ Len(reads) = 3
   /\ probe.request = [variable |-> reads[3].id, modeId |-> request.modeId]
   /\ ReadValue(1).kind = "alias"
   /\ ReadValue(2).kind = "alias"
   /\ ReadValue(3).kind = "color") =>
     output = probe.output

C15_Witness ==
  /\ rpc = "done"
  /\ probe.set
  /\ Len(reads) = 3
  /\ probe.request = [variable |-> reads[3].id, modeId |-> request.modeId]
  /\ ReadValue(3).kind = "color"
  /\ output = probe.output
  /\ output # FALLBACK_OKLCH_COLOR

\* ------------------------------------------------------------------- C16
\* C16: at every hop of alias resolution the value read is the target's value
\* for the mode requested for the referring variable; the mode never changes
\* along the chain.
C16_SameMode ==
  (rpc # "idle" /\ request.variable # "undefined") =>
    \A i \in DOMAIN reads : reads[i].mode = RequestedMode

C16_Witness ==
  /\ rpc = "done"
  /\ Len(reads) = 3
  /\ request.modeId = Modes[1]
  /\ graph[reads[3].id].valuesByMode[Modes[2]] # Undefined
  /\ ReadValue(3).kind = "number"
  /\ \A i \in DOMAIN reads : reads[i].mode = Modes[1]
  /\ output = safeFloatConversion(ReadValue(3).n, NameOf(reads[3].id))

\* ------------------------------------------------------------------- C17
\* C17: generateCSSValue returns, without raising, the fallback constant of
\* the referring variable's type (the fallback colour for COLOR, "0" for
\* FLOAT, "" in quotes for STRING) when an alias target is missing or holds
\* no value for the requested mode; with no variable it returns "".
C17_FallbackOnMissingTarget ==
  /\ EndedAtMissingTarget =>
       output = CASE graph[request.variable].resolvedType = "COLOR" -> FALLBACK_OKLCH_COLOR
                  [] graph[request.variable].resolvedType = "FLOAT" -> "0"
                  [] graph[request.variable].resolvedType = "STRING" -> "\"\""
  /\ (rpc = "done" /\ request.variable = "undefined") => output = ""

C17_Witness ==
  /\ EndedAtMissingTarget
  /\ Len(reads) = 2
  /\ graph[request.variable].resolvedType = "FLOAT"
  /\ graph[reads[2].id].resolvedType = "COLOR"
  /\ ReadValue(2).id = "VariableID:C"
  /\ output = "0"

\* ------------------------------------------------------------------- C18
\* C18: resolving the same variable and mode again, the graph unchanged,
\* returns the output of the first resolution, whatever resolutions ran in
\* between and whatever the colour cache holds.
C18_SameOutputAgain ==
  (rpc = "done" /\ probe.set /\ probe.request = request) =>
    output = probe.output

C18_Witness ==
  /\ rpc = "done"
  /\ probe.set
  /\ probe.request = request
  /\ request.variable # "undefined"
  /\ graph[request.variable].resolvedType = "COLOR"
  /\ Cardinality(colorCache) >= 2
  /\ output = probe.output
  /\ output # FALLBACK_OKLCH_COLOR

\* --------------------------------------------------- detectVariableType
\* token-patterns.ts:6-28
MEASURES_KEYWORDS ==
  <<<<"s", "p", "a", "c", "i", "n", "g">>,
    <<"s", "p", "a", "c", "e">>,
    <<"g", "a", "p">>,
    <<"m", "a", "r", "g", "i", "n">>,
    <<"p", "a", "d", "d", "i", "n", "g">>,
    <<"p", "a", "d">>,
    <<"s", "i", "z", "e">>,
    <<"w", "i", "d", "t", "h">>,
    <<"h", "e", "i", "g", "h", "t">>,
    <<"d", "i", "m", "e", "n", "s", "i", "o", "n">>,
    <<"r", "a", "d", "i", "u", "s">>,
    <<"r", "o", "u", "n", "d", "e", "d">>,
    <<"c", "o", "r", "n", "e", "r">>,
    <<"o", "p", "a", "c", "i", "t", "y">>,
    <<"a", "l", "p", "h", "a">>,
    <<"t", "r", "a", "n", "s", "p", "a", "r", "e", "n", "c", "y">>,
    <<"d", "u", "r", "a", "t", "i", "o", "n">>,
    <<"t", "i", "m", "i", "n", "g">>,
    <<"a", "n", "i", "m", "a", "t", "i", "o", "n">>,
    <<"t", "r", "a", "n", "s", "i", "t", "i", "o", "n">>,
    <<"b", "o", "r", "d", "e", "r">>>>

\* token-patterns.ts:31-39
FONTS_KEYWORDS ==
  <<<<"f", "o", "n", "t">>,
    <<"f", "o", "n", "t", "f", "a", "m", "i", "l", "y">>,
    <<"f", "o", "n", "t", "w", "e", "i", "g", "h", "t">>,
    <<"f", "o", "n", "t", "s", "i", "z", "e">>,
    <<"t", "e", "x", "t", "C", "a", "s", "e">>,
    <<"t", "e", "x", "t", "D", "e", "c", "o", "r", "a", "t", "i", "o", "n">>,
    <<"u", "n", "d", "e", "r", "l", "i", "n", "e">>>>

Str_color == <<"c", "o", "l", "o", "r">>
Str_fontfamily == <<"f", "o", "n", "t", "f", "a", "m", "i", "l", "y">>
Str_fontweight == <<"f", "o", "n", "t", "w", "e", "i", "g", "h", "t">>
Str_fontsize == <<"f", "o", "n", "t", "s", "i", "z", "e">>

\* variable-type-detector.service.ts:13-20
isMeasuresVariable(lowerName) == some(MEASURES_KEYWORDS, lowerName)
isFontsVariable(lowerName) == some(FONTS_KEYWORDS, lowerName)

\* detectVariableType with the measures test first and color as the default
detectVariableType_MeasuresFirst(variableName) ==
  LET lowerName == toLowerCase(variableName)
  IN IF isMeasuresVariable(lowerName) THEN "measures"
     ELSE IF isFontsVariable(lowerName) THEN "fonts"
     ELSE "color"

\* detectVariableType (variable-type-detector.service.ts:26-43)
detectVariableType(variableName) ==
  LET lowerName == toLowerCase(variableName)
  IN IF includes(lowerName, Str_color) THEN "color"
     ELSE IF \/ includes(lowerName, Str_fontfamily)
             \/ includes(lowerName, Str_fontweight)
             \/ includes(lowerName, Str_fontsize)
             \/ isFontsVariable(lowerName)
     THEN "fonts"
     ELSE "measures"

\* the pieces variable names of the model are made of
FragmentPool ==
  {<<"b", "o", "r", "d", "e", "r">>,
   <<"C", "o", "l", "o", "r">>,
   <<"c", "o", "l", "o", "r">>,
   <<"s", "p", "a", "c", "i", "n", "g", "-", "m", "d">>,
   <<"f", "o", "n", "t">>,
   <<"f", "o", "n", "t", "W", "e", "i", "g", "h", "t">>,
   <<"B", "o", "l", "d">>,
   <<"t", "e", "x", "t", "C", "a", "s", "e">>,
   <<"T", "e", "x", "t", "D", "e", "c", "o", "r", "a", "t", "i", "o", "n">>,
   <<"u", "n", "d", "e", "r", "l", "i", "n", "e">>,
   <<"F", "O", "N", "T", "S", "I", "Z", "E">>,
   <<"f", "o", "n", "t", "F", "a", "m", "i", "l", "y">>,
   <<"s", "i", "z", "e">>}

\* names of up to MaxFragments pieces
RECURSIVE NamesOf(_)
NamesOf(n) ==
  IF n = 0 THEN {<<>>}
  ELSE {shorter \o piece : shorter \in NamesOf(n - 1), piece \in FragmentPool}

NamePool == UNION {NamesOf(n) : n \in 1..MaxFragments}

\* a name in its own, in lower and in upper case
CaseVariants(s) == {s, toLowerCase(s), toUpperCase(s)}

InitDetect ==
  /\ PushInit
  /\ call = CHOOSE c \in Calls : c.fn = "exportToGitHub"
  /\ refs = InitialRefs(TRUE, TRUE, 0)
  /\ MissingConfig = {}
  /\ MainInit
  /\ ResolveIdle
  /\ ServiceIdle
  /\ name \in NamePool
  /\ variant \in CaseVariants(name)
  /\ category = Null
  /\ variantCategory = Null

\* processBatchOfVariables classifies a variable by its name
\* (variable-conversion.service, part_010:99)
DetectName ==
  /\ category = Null
  /\ category' = detectVariableType(name)
  /\ UNCHANGED <<cfg, pushVars, mainVars, resolveVars, serviceVars, name, variant, variantCategory>>

DetectVariant ==
  /\ variantCategory = Null
  /\ variantCategory' = detectVariableType(variant)
  /\ UNCHANGED <<cfg, pushVars, mainVars, resolveVars, serviceVars, name, variant, category>>

NextDetect ==
  \/ DetectName
  \/ DetectVariant

SpecDetect == InitDetect /\ [][NextDetect]_vars

C20_CaseInsensitive ==
  /\ (/\ category # Null
      /\ \E i \in DOMAIN FONTS_KEYWORDS :
           includes(toLowerCase(name), toLowerCase(FONTS_KEYWORDS[i]))
      /\ ~includes(toLowerCase(name), Str_color)) =>
       category = "fonts"
  /\ (/\ category # Null
      /\ variantCategory # Null
      /\ toLowerCase(name) = toLowerCase(variant)) =>
       category = variantCategory

\* --------------------------------------------------- safeFloatConversion
\* the protocol and the configuration at rest, for the specifications of the
\* conversion services
PushIdle ==
  /\ PushInit
  /\ call = CHOOSE c \in Calls : c.fn = "exportToGitHub"
  /\ refs = InitialRefs(TRUE, TRUE, 0)
  /\ MissingConfig = {}

\* names of FLOAT variables: of one keyword group, of several, of none
FloatNamePool ==
  {<<"s", "p", "a", "c", "i", "n", "g", "-", "m", "d">>,
   <<"O", "p", "a", "c", "i", "t", "y", "/", "h", "o", "v", "e", "r">>,
   <<"a", "l", "p", "h", "a", "-", "w", "e", "i", "g", "h", "t">>,
   <<"f", "o", "n", "t", "W", "e", "i", "g", "h", "t", "B", "o", "l", "d">>,
   <<"w", "e", "i", "g", "h", "t", "-", "d", "u", "r", "a", "t", "i", "o", "n">>,
   <<"d", "u", "r", "a", "t", "i", "o", "n", "-", "z", "i", "n", "d", "e", "x">>,
   <<"t", "i", "m", "i", "n", "g">>,
   <<"z", "-", "i", "n", "d", "e", "x", "-", "o", "p", "a", "c", "i", "t", "y">>,
   <<"z", "I", "n", "d", "e", "x">>,
   <<"r", "a", "d", "i", "u", "s">>}

\* values in hundredths: -8, -0.5, 0, 0.5, 1.5, 8, 16, 24, 400, 450.5
FloatValuePool == {-800, -50, 0, 50, 150, 800, 1600, 2400, 40000, 45050}

InitFloat ==
  /\ PushIdle
  /\ MainInit
  /\ ResolveIdle
  /\ DetectIdle
  /\ BuildIdle
  /\ ThemeIdle
  /\ ConvertIdle
  /\ RaceIdle
  /\ BatchIdle
  /\ EncodeIdle
  /\ floatName \in FloatNamePool
  /\ floatLiteral \in FloatValuePool
  /\ floatText = Null
  /\ negatedText = Null

\* convertFloatValue hands a literal to safeFloatConversion
\* (css-value-generator.service.ts:116)
ConvertFloat ==
  /\ floatText = Null
  /\ floatText' = safeFloatConversion(floatLiteral, floatName)
  /\ UNCHANGED <<floatFrame, floatName, floatLiteral, negatedText>>

\* the same for the negated value
ConvertNegated ==
  /\ negatedText = Null
  /\ negatedText' = safeFloatConversion(-floatLiteral, floatName)
  /\ UNCHANGED <<floatFrame, floatName, floatLiteral, floatText>>

NextFloat ==
  \/ ConvertFloat
  \/ ConvertNegated

SpecFloat == InitFloat /\ [][NextFloat]_vars

\* ---------------------------------------------- vocabulary of C21 to C23
\* the keyword groups in the order of the claim: opacity, weight, duration,
\* z-index
KeywordGroups ==
  <<OPACITY_KEYWORDS, WEIGHT_KEYWORDS, DURATION_KEYWORDS, ZINDEX_KEYWORDS>>

MatchesGroup(variableName, g) ==
  \E i \in DOMAIN KeywordGroups[g] :
    includes(toLowerCase(variableName), KeywordGroups[g][i])

\* the earliest group the name matches; one past the last for none
FirstGroup(variableName) ==
  IF \E g \in DOMAIN KeywordGroups : MatchesGroup(variableName, g)
  THEN CHOOSE g \in DOMAIN KeywordGroups :
         /\ MatchesGroup(variableName, g)
         /\ \A h \in DOMAIN KeywordGroups : MatchesGroup(variableName, h) => g <= h
  ELSE Len(KeywordGroups) + 1

\* the text is a whole number followed by the unit
EndsWithUnit(text, unit) ==
  \E whole \in -(Hundredths * Hundredths)..(Hundredths * Hundredths) :
    text = ToString(whole) \o unit

\* ------------------------------------------------------------------- C21
\* C21: Number conversion takes the branch of the first keyword group that
\* the lower-cased name matches, in the order opacity/alpha, weight,
\* duration/timing, z-index, default (pixel to rem); a name matching several
\* groups takes the earliest.
C21_FirstGroupWins ==
  floatText # Null =>
    LET g == FirstGroup(floatName)
    IN /\ g = 1 => floatText = ToString(clamp(floatLiteral, 0, Hundredths)) \o "%"
       /\ g = 2 => floatText = ToString(MathRound(floatLiteral))
       /\ g = 3 => floatText = IF floatLiteral < 0 THEN "0ms"
                               ELSE DecimalText(floatLiteral, 2) \o "ms"
       /\ g = 4 => floatText = ToString(MathRound(floatLiteral))
       /\ g = 5 => floatText = DecimalText(Abs(floatLiteral) * 625, 6) \o "rem"

C21_Witness ==
  /\ floatText = "50%"
  /\ MatchesGroup(floatName, 1)
  /\ MatchesGroup(floatName, 2)
  /\ floatLiteral = 50

\* ------------------------------------------------------------------- C22
\* C22 as stated: pxToRem has the base 16 px = 1rem and gives a negative
\* pixel value the text of its absolute value, pxToRem(-8) = pxToRem(8).
C22_Original ==
  (floatText # Null /\ FirstGroup(floatName) = 5) =>
    /\ pxToRem(16 * Hundredths) = "1rem"
    /\ pxToRem(-floatLiteral) = pxToRem(floatLiteral)

\* C22: the default branch of the Number conversion has the base
\* 16 px = 1rem, so 16 gives "1rem", and gives a negative pixel value the
\* text of its absolute value, so -8 and 8 both give "0.5rem"; pxToRem itself
\* keeps the sign of its argument.
C22_DefaultBranchAbsolute ==
  (floatText # Null /\ negatedText # Null /\ FirstGroup(floatName) = 5) =>
    /\ floatText = negatedText
    /\ floatLiteral = 16 * Hundredths => floatText = "1rem"
    /\ floatLiteral = 8 * Hundredths => floatText = "0.5rem"
    /\ floatLiteral < 0 => pxToRem(floatLiteral) = "-" \o floatText

C22_Witness ==
  /\ floatLiteral = -800
  /\ FirstGroup(floatName) = 5
  /\ floatText = "0.5rem"
  /\ negatedText = "0.5rem"

\* ------------------------------------------------------------------- C23
\* C23: for a name matching the opacity/alpha keywords the output is
\* round(clamp(v, 0, 1) * 100) followed by "%": every value above 1 gives
\* "100%", every value below 0 gives "0%"; no value is rejected.
C23_OpacityClamped ==
  (floatText # Null /\ MatchesGroup(floatName, 1)) =>
    /\ floatLiteral > Hundredths => floatText = "100%"
    /\ floatLiteral < 0 => floatText = "0%"
    /\ floatLiteral \in 0..Hundredths => floatText = ToString(floatLiteral) \o "%"
    /\ EndsWithUnit(floatText, "%")

C23_Witness ==
  /\ floatLiteral = 150
  /\ MatchesGroup(floatName, 1)
  /\ floatText = "100%"

\* ---------------------------------------------------------- buildCssOutput
\* bound: the longest list handed to buildCssOutput
MaxVariables == 3

\* the output names of the variables of the pool
Name_btn_bg == <<"-", "-", "b", "t", "n", "-", "b", "g">>
Name_color_info == <<"-", "-", "c", "o", "l", "o", "r", "-", "i", "n", "f", "o">>
Name_color_base == <<"-", "-", "c", "o", "l", "o", "r", "-", "b", "a", "s", "e">>
Name_tint == <<"-", "-", "t", "i", "n", "t">>
Name_fonts_body == <<"-", "-", "f", "o", "n", "t", "s", "-", "b", "o", "d", "y">>
Name_gap == <<"-", "-", "g", "a", "p">>
Name_card_blur == <<"-", "-", "c", "a", "r", "d", "-", "b", "l", "u", "r">>

CSSVariable(name_, value, type) == [name |-> name_, value |-> value, type |-> type]

\* variables of every category and tier, and one of a type that is no
\* category
CssVariablePool ==
  {CSSVariable(Name_btn_bg, "oklch(0.5 0.1 20)", "color"),
   CSSVariable(Name_color_info, "oklch(0.6 0.1 240)", "color"),
   CSSVariable(Name_color_base, "oklch(1 0 0)", "color"),
   CSSVariable(Name_tint, "oklch(0 0 0)", "color"),
   CSSVariable(Name_fonts_body, "1rem", "fonts"),
   CSSVariable(Name_gap, "0.5rem", "measures"),
   CSSVariable(Name_card_blur, "4px", "shadow")}

SECTION_LABELS == [color |-> "Colors", fonts |-> "Fonts", measures |-> "Measures"]

GROUP_ORDER == <<"color", "fonts", "measures">>

\* groupVariablesByType (css-builder.service.ts:19-36): a type that is no
\* category goes to measures
\* the bucket of a variable without the fallback to measures
BucketOf_AsTyped(variable) == variable.type

\* grouped[variable.type] || grouped.measures (css-builder.service.ts:27-28)
BucketOf(variable) ==
  IF variable.type \in DOMAIN SECTION_LABELS THEN variable.type ELSE "measures"

groupVariablesByType(variables) ==
  [type \in DOMAIN SECTION_LABELS |->
     SelectSeq(variables, LAMBDA variable : BucketOf(variable) = type)]

startsWith(s, prefix) ==
  /\ Len(s) >= Len(prefix)
  /\ SubSeq(s, 1, Len(prefix)) = prefix

ComponentHints == <<<<"b", "u", "t", "t", "o", "n">>,
    <<"b", "t", "n">>,
    <<"i", "n", "p", "u", "t">>,
    <<"c", "a", "r", "d">>,
    <<"m", "o", "d", "a", "l">>,
    <<"t", "o", "o", "l", "t", "i", "p">>>>
SemanticPrefixes == <<<<"-", "-", "c", "o", "l", "o", "r">>,
    <<"-", "-", "f", "o", "n", "t", "s">>,
    <<"-", "-", "m", "e", "a", "s", "u", "r", "e", "s">>>>
SemanticHints == <<<<"p", "r", "i", "m", "a", "r", "y">>,
    <<"s", "e", "c", "o", "n", "d", "a", "r", "y">>,
    <<"s", "u", "c", "c", "e", "s", "s">>,
    <<"w", "a", "r", "n", "i", "n", "g">>,
    <<"e", "r", "r", "o", "r">>,
    <<"i", "n", "f", "o">>,
    <<"n", "e", "u", "t", "r", "a", "l">>>>

\* classifyTier (part_008:38-70)
classifyTier(name_) ==
  LET lower == toLowerCase(name_)
  IN IF some(ComponentHints, lower) THEN "component"
     ELSE IF /\ \E i \in DOMAIN SemanticPrefixes : startsWith(lower, SemanticPrefixes[i])
             /\ some(SemanticHints, lower)
          THEN "semantic"
          ELSE "core"

\* the collation of the characters names are made of: the dash before the
\* letters
Collation == <<"-">> \o LowerAlphabet

CollationRank(c) == CHOOSE i \in DOMAIN Collation : Collation[i] = c

\* the letters compared without their case
RECURSIVE primaryCompare(_, _)
primaryCompare(a, b) ==
  IF a = <<>> THEN (IF b = <<>> THEN 0 ELSE -1)
  ELSE IF b = <<>> THEN 1
  ELSE IF CollationRank(LowerChar(Head(a))) < CollationRank(LowerChar(Head(b))) THEN -1
  ELSE IF CollationRank(LowerChar(Head(a))) > CollationRank(LowerChar(Head(b))) THEN 1
  ELSE primaryCompare(Tail(a), Tail(b))

\* names of the same letters: at the first difference of case the lower
\* case comes first
RECURSIVE caseCompare(_, _)
caseCompare(a, b) ==
  IF a = <<>> \/ b = <<>> THEN 0
  ELSE IF Head(a) = Head(b) THEN caseCompare(Tail(a), Tail(b))
  ELSE IF Head(a) = LowerChar(Head(a)) THEN -1
  ELSE 1

\* String.prototype.localeCompare on such names
localeCompare(a, b) ==
  LET primary == primaryCompare(a, b)
  IN IF primary # 0 THEN primary ELSE caseCompare(a, b)

\* Array.prototype.sort by name: stable
RECURSIVE InsertByName(_, _)
InsertByName(sorted, item) ==
  IF sorted = <<>> THEN <<item>>
  ELSE IF localeCompare(item.name, Head(sorted).name) < 0
       THEN <<item>> \o sorted
       ELSE <<Head(sorted)>> \o InsertByName(Tail(sorted), item)

RECURSIVE sort(_)
sort(items) ==
  IF items = <<>> THEN <<>>
  ELSE InsertByName(sort(SubSeq(items, 1, Len(items) - 1)), items[Len(items)])

\* a line of the document
Comment(kind, label) == [kind |-> kind, label |-> label, name |-> <<>>, value |-> ""]
Entry(variable) ==
  [kind |-> "entry", label |-> "", name |-> variable.name, value |-> variable.value]

RECURSIVE Entries(_)
Entries(items) ==
  IF items = <<>> THEN <<>> ELSE <<Entry(Head(items))>> \o Entries(Tail(items))

\* buildTier that keeps the order of the list
buildTier_Unsorted(label, items) ==
  IF items = <<>> THEN <<>>
  ELSE <<Comment("tier", label)>> \o Entries(items)

\* buildTier (part_008:90-98)
buildTier(label, items) ==
  IF items = <<>> THEN <<>>
  ELSE <<Comment("tier", label)>> \o Entries(sort(items))

\* formatByTier (part_008:72-110)
formatByTier(type, variables) ==
  IF variables = <<>> THEN <<Comment("section", SECTION_LABELS[type])>>
  ELSE LET tiers == [tier \in {"core", "semantic", "component"} |->
                      SelectSeq(variables, LAMBDA v : classifyTier(v.name) = tier)]
       IN <<Comment("section", SECTION_LABELS[type])>>
          \o buildTier("Core", tiers.core)
          \o buildTier("Semantic", tiers.semantic)
          \o buildTier("Component", tiers.component)

\* formatSection (part_008:112-117)
formatSection(type, variables) == formatByTier(type, variables)

\* buildCssOutput (part_008:122-139) line by line; the timestamp of the
\* header is left out
buildCssLines(variables) ==
  LET grouped == groupVariablesByType(variables)
  IN <<Comment("header", "Design tokens exported from Figma"),
       Comment("open", ":root {")>>
     \o formatSection(GROUP_ORDER[1], grouped[GROUP_ORDER[1]])
     \o formatSection(GROUP_ORDER[2], grouped[GROUP_ORDER[2]])
     \o formatSection(GROUP_ORDER[3], grouped[GROUP_ORDER[3]])
     \o <<Comment("close", "}")>>

InitBuild ==
  /\ PushIdle
  /\ MainInit
  /\ ResolveIdle
  /\ DetectIdle
  /\ FloatIdle
  /\ ThemeIdle
  /\ ConvertIdle
  /\ RaceIdle
  /\ BatchIdle
  /\ EncodeIdle
  /\ cssVariables \in DistinctSeqs(CssVariablePool, 0, MaxVariables)
  /\ document = Null

BuildCssOutput ==
  /\ document = Null
  /\ document' = buildCssLines(cssVariables)
  /\ UNCHANGED <<buildFrame, cssVariables>>

NextBuild == BuildCssOutput

SpecBuild == InitBuild /\ [][NextBuild]_vars

\* ------------------------------------------------------- vocabulary of C24
\* the positions of the lines of a kind
LinesOfKind(kind) == {i \in DOMAIN document : document[i].kind = kind}

\* the section a line belongs to: the last section heading before it
SectionAt(i) ==
  LET before == {j \in LinesOfKind("section") : j <= i}
  IN CHOOSE j \in before : \A k \in before : k <= j

\* the tier heading a line belongs to
TierAt(i) ==
  LET before == {j \in LinesOfKind("tier") : j <= i}
  IN CHOOSE j \in before : \A k \in before : k <= j

SectionsInFixedOrder ==
  SelectSeq(document, LAMBDA line : line.kind = "section")
    = <<Comment("section", "Colors"), Comment("section", "Fonts"),
        Comment("section", "Measures")>>

\* every variable of the list is an entry of the section of its category
EveryVariableOnce ==
  /\ Cardinality(LinesOfKind("entry")) = Len(cssVariables)
  /\ \A n \in DOMAIN cssVariables :
       \E i \in LinesOfKind("entry") :
         /\ document[i] = Entry(cssVariables[n])
         /\ document[SectionAt(i)].label = SECTION_LABELS[BucketOf(cssVariables[n])]

TierRank(label) == CHOOSE r \in 1..3 : <<"Core", "Semantic", "Component">>[r] = label

MaxModes == 3

Str_DarkMode == <<"D", "a", "r", "k", " ", "M", "o", "d", "e">>
Str_LightMode == <<"L", "i", "g", "h", "t", " ", "M", "o", "d", "e">>
Str_Brand == <<"B", "r", "a", "n", "d">>
Str_darkMode == <<"d", "a", "r", "k", "-", "m", "o", "d", "e">>
Str_lightMode == <<"l", "i", "g", "h", "t", "-", "m", "o", "d", "e">>
Str_brand == <<"b", "r", "a", "n", "d">>
Str_light == <<"l", "i", "g", "h", "t">>

\* mode names: one word, two words, "Light" first and last, and two names
\* of one slug
ModeNamePool ==
  ThemeNamePool \cup {Str_DarkMode, Str_LightMode, Str_Brand}

InitThemes ==
  /\ PushIdle
  /\ MainInit
  /\ ResolveIdle
  /\ DetectIdle
  /\ FloatIdle
  /\ BuildIdle
  /\ ConvertIdle
  /\ RaceIdle
  /\ BatchIdle
  /\ EncodeIdle
  /\ modeNames \in DistinctSeqs(ModeNamePool, 0, MaxModes)
  /\ themeCss = Null

\* buildThemeAwareCssOutput (css-builder.service.ts:80-99) of an input with
\* these mode names, three variables each
BuildThemeAwareCssOutput ==
  /\ themeCss = Null
  /\ themeCss' = buildThemeAwareCssOutput(
                   [i \in DOMAIN modeNames |-> [theme |-> modeNames[i], nVars |-> 3]])
  /\ UNCHANGED <<themeFrame, modeNames>>

NextThemes == BuildThemeAwareCssOutput

SpecThemes == InitThemes /\ [][NextThemes]_vars

\* ------------------------------------------------------- vocabulary of C25
SlugsOf(themes) == {themes[i].key : i \in DOMAIN themes}

ModeNameSet == {modeNames[i] : i \in DOMAIN modeNames}

\* the kebab-case of the full name, less a "-light" at its end
KebabLessLight(modeName) ==
  LET kebab == toKebabCase(modeName)
  IN IF endsWith(kebab, Str_dashLight)
     THEN SubSeq(kebab, 1, Len(kebab) - Len(Str_dashLight))
     ELSE kebab

VARIABLE_BATCH_SIZE == 10

\* bound: the ids a collection has beyond a full chunk
MaxExtra == 1

\* bound: the most collections of a file
MaxCollections == 2

\* the sizes of a collection: empty, less than a chunk, a chunk, more
CollectionSizes ==
  {0, MaxExtra, VARIABLE_BATCH_SIZE, VARIABLE_BATCH_SIZE + MaxExtra}

\* the variableIds of collections of these sizes: the ids of the file,
\* numbered through
RECURSIVE VariableIdsFrom(_, _)
VariableIdsFrom(sizes, offset) ==
  IF sizes = <<>> THEN <<>>
  ELSE <<[k \in 1..Head(sizes) |-> offset + k]>>
       \o VariableIdsFrom(Tail(sizes), offset + Head(sizes))

CollectionsPool ==
  {VariableIdsFrom(sizes, 0) :
     sizes \in UNION {[1..n -> CollectionSizes] : n \in 0..MaxCollections}}

\* ids that may be gone, and ids whose resolution may throw: the first and
\* the last of the first chunk, and the first after it
MissingPool == SUBSET {VARIABLE_BATCH_SIZE}
ThrowingPool == SUBSET {1, VARIABLE_BATCH_SIZE + 1}

RECURSIVE Flatten(_)
Flatten(seqs) == IF seqs = <<>> THEN <<>> ELSE Head(seqs) \o Flatten(Tail(seqs))

ElementsOf(s) == {s[k] : k \in DOMAIN s}

AllIds == ElementsOf(Flatten(collections))

Min(a, b) == IF a < b THEN a ELSE b

\* variableIds.slice(i, i + VARIABLE_BATCH_SIZE)
slice(variableIds, from, to) == SubSeq(variableIds, from + 1, Min(to, Len(variableIds)))

NoChunk == <<0, 0>>

\* the first collection from c on with a variable id: the for loops of
\* variable-conversion.service.ts:215-220 pass over an empty collection
RECURSIVE FirstChunkFrom(_)
FirstChunkFrom(c) ==
  IF c > Len(collections) THEN NoChunk
  ELSE IF Len(collections[c]) > 0 THEN <<c, 0>>
  ELSE FirstChunkFrom(c + 1)

\* i += VARIABLE_BATCH_SIZE, and the next collection at the end of this one
ChunkAfter(at) ==
  IF at[2] + VARIABLE_BATCH_SIZE < Len(collections[at[1]])
  THEN <<at[1], at[2] + VARIABLE_BATCH_SIZE>>
  ELSE FirstChunkFrom(at[1] + 1)

\* lines 241-297: with no entry generated the conversion throws, otherwise
\* it returns its result
Finish ==
  /\ phase' = IF generated = {} THEN "threw" ELSE "returned"
  /\ UNCHANGED <<chunkAt, batch, started, chunkLog>>

\* processBatchOfVariables (lines 60-117) up to its await: map runs every
\* callback to its first await, so every resolution of the batch is started
ProcessBatchOfVariables(at) ==
  LET variableIds == slice(collections[at[1]], at[2], at[2] + VARIABLE_BATCH_SIZE)
  IN /\ phase' = "chunk"
     /\ chunkAt' = at
     /\ batch' = variableIds
     /\ started' = started \cup ElementsOf(variableIds)
     /\ chunkLog' = Append(chunkLog, variableIds)

Proceed(at) == IF at = NoChunk THEN Finish ELSE ProcessBatchOfVariables(at)

\* convertVariablesToCSS (lines 156-228) once the collections are there
ConvertVariablesToCSS ==
  /\ phase = "idle"
  /\ IF collections = <<>>
     THEN /\ phase' = "threw"
          /\ UNCHANGED <<chunkAt, batch, started, chunkLog, totalVariables>>
     ELSE /\ totalVariables' = Len(Flatten(collections))
          /\ Proceed(FirstChunkFrom(1))
  /\ UNCHANGED <<convertFrame, convertInputs, completed, generated, caught,
                 totalProcessed, progressLog, yields>>

\* a callback that lets its error reject the promise: Promise.all rejects and
\* the conversion throws
ResolutionSettles_Uncaught(variableId) ==
  /\ phase = "chunk"
  /\ variableId \in started \ completed
  /\ completed' = completed \cup {variableId}
  /\ IF variableId \in throwingIds
     THEN /\ phase' = "threw"
          /\ UNCHANGED <<generated, caught>>
     ELSE /\ generated' = IF variableId \in missingIds THEN generated
                          ELSE generated \cup {variableId}
          /\ UNCHANGED <<phase, caught>>
  /\ UNCHANGED <<convertFrame, convertInputs, chunkAt, batch, started,
                 totalProcessed, totalVariables, progressLog, yields, chunkLog>>

\* the callback of one variable id runs to its end (lines 66-114): a missing
\* variable returns, an error is caught, otherwise the entries are pushed
ResolutionSettles(variableId) ==
  /\ phase = "chunk"
  /\ variableId \in started \ completed
  /\ completed' = completed \cup {variableId}
  /\ IF variableId \in throwingIds
     THEN /\ caught' = caught \cup {variableId}
          /\ UNCHANGED generated
     ELSE /\ generated' = IF variableId \in missingIds THEN generated
                          ELSE generated \cup {variableId}
          /\ UNCHANGED caught
  /\ UNCHANGED <<convertFrame, convertInputs, phase, chunkAt, batch, started,
                 totalProcessed, totalVariables, progressLog, yields, chunkLog>>

\* a join that counts the entries generated, not the ids of the batch
BatchJoined_CountsGenerated ==
  /\ phase = "chunk"
  /\ ElementsOf(batch) \subseteq completed
  /\ totalProcessed' = totalProcessed + Cardinality(ElementsOf(batch) \cap generated)
  /\ progressLog' = Append(progressLog, totalProcessed')
  /\ yields' = yields + 1
  /\ phase' = "yield"
  /\ UNCHANGED <<convertFrame, convertInputs, chunkAt, batch, started, completed,
                 generated, caught, totalVariables, chunkLog>>

\* a join that goes on as soon as one resolution has settled
BatchJoined_First ==
  /\ phase = "chunk"
  /\ ElementsOf(batch) \cap completed # {}
  /\ totalProcessed' = totalProcessed + Len(batch)
  /\ progressLog' = Append(progressLog, totalProcessed')
  /\ yields' = yields + 1
  /\ phase' = "yield"
  /\ UNCHANGED <<convertFrame, convertInputs, chunkAt, batch, started, completed,
                 generated, caught, totalVariables, chunkLog>>

\* Promise.all resolves (line 116); the count and the progress line (lines
\* 230-234), then control is yielded (line 237)
BatchJoined ==
  /\ phase = "chunk"
  /\ ElementsOf(batch) \subseteq completed
  /\ totalProcessed' = totalProcessed + Len(batch)
  /\ progressLog' = Append(progressLog, totalProcessed')
  /\ yields' = yields + 1
  /\ phase' = "yield"
  /\ UNCHANGED <<convertFrame, convertInputs, chunkAt, batch, started, completed,
                 generated, caught, totalVariables, chunkLog>>

\* after the yield: the next chunk, or the end of the loops
Resumed ==
  /\ phase = "yield"
  /\ Proceed(ChunkAfter(chunkAt))
  /\ UNCHANGED <<convertFrame, convertInputs, completed, generated, caught,
                 totalProcessed, totalVariables, progressLog, yields>>

InitConvert ==
  /\ PushIdle
  /\ MainInit
  /\ ResolveIdle
  /\ DetectIdle
  /\ FloatIdle
  /\ BuildIdle
  /\ ThemeIdle
  /\ RaceIdle
  /\ BatchIdle
  /\ EncodeIdle
  /\ collections \in CollectionsPool
  /\ missingIds \in MissingPool
  /\ throwingIds \in ThrowingPool
  /\ ConvertAtRest

NextConvert ==
  \/ ConvertVariablesToCSS
  \/ \E variableId \in started \ completed : ResolutionSettles(variableId)
  \/ BatchJoined
  \/ Resumed

SpecConvert == InitConvert /\ [][NextConvert]_vars

\* ------------------------------------------------ vocabulary of C26 to C28
Ended == phase \in {"returned", "threw"}

RECURSIVE SumOfLengths(_)
SumOfLengths(seqs) ==
  IF seqs = <<>> THEN 0 ELSE Len(Head(seqs)) + SumOfLengths(Tail(seqs))

\* a is the beginning of b
IsPrefix(a, b) == a = <<>> \/ (Len(a) <= Len(b) /\ SubSeq(b, 1, Len(a)) = a)

\* the chunk is a run of consecutive ids of one collection
WithinOneCollection(chunk) ==
  \E c \in DOMAIN collections :
    \E from \in 0..(Len(collections[c]) - Len(chunk)) :
      chunk = SubSeq(collections[c], from + 1, from + Len(chunk))

\* ------------------------------------------------------------------- C26
\* C26: the ids of each collection are processed in consecutive chunks of at
\* most 10 ids, each id in exactly one chunk; all resolutions of a chunk are
\* started together, none of the next chunk starts before every resolution of
\* the current chunk has completed, and control is yielded once after each
\* chunk.
C26_ChunkedAndJoined ==
  /\ IsPrefix(Flatten(chunkLog), Flatten(collections))
  /\ \A k \in DOMAIN chunkLog :
       /\ Len(chunkLog[k]) \in 1..VARIABLE_BATCH_SIZE
       /\ WithinOneCollection(chunkLog[k])
  /\ started = ElementsOf(Flatten(chunkLog))
  /\ started \ completed \subseteq ElementsOf(batch)
  /\ phase = "chunk" => (batch = chunkLog[Len(chunkLog)] /\ yields = Len(chunkLog) - 1)
  /\ phase \in {"yield", "returned"} => yields = Len(chunkLog)
  /\ (Ended /\ collections # <<>>) =>
       /\ Flatten(chunkLog) = Flatten(collections)
       /\ yields = Len(chunkLog)

\* a collection of more than one chunk, converted to the end
C26_Witness ==
  /\ phase = "returned"
  /\ Len(collections) = 1
  /\ Len(chunkLog) = 2
  /\ Len(chunkLog[1]) = VARIABLE_BATCH_SIZE
  /\ yields = 2

\* ------------------------------------------------------------------- C27
\* C27: the processed count never decreases and never exceeds the total, it
\* grows by the chunk's size after each chunk, and it equals the number of
\* variable ids once the last chunk has completed, even when some variables
\* failed to resolve.
C27_ProgressMonotonic ==
  /\ totalProcessed <= totalVariables
  /\ Len(progressLog) = yields
  /\ \A k \in DOMAIN progressLog :
       /\ k <= Len(chunkLog)
       /\ progressLog[k] = SumOfLengths(SubSeq(chunkLog, 1, k))
       /\ k > 1 => progressLog[k - 1] < progressLog[k]
  /\ progressLog # <<>> => totalProcessed = progressLog[Len(progressLog)]
  /\ (Ended /\ collections # <<>>) =>
       /\ totalProcessed = Cardinality(AllIds)
       /\ totalProcessed = totalVariables

\* all chunks done, one variable gone and one resolution thrown
C27_Witness ==
  /\ phase = "returned"
  /\ caught # {}
  /\ completed \cap missingIds # {}
  /\ totalProcessed = VARIABLE_BATCH_SIZE + MaxExtra
  /\ Len(progressLog) = 2

\* ------------------------------------------------------------------- C28
\* C28: a resolution failure never aborts the conversion: when the fetch or
\* the resolution of one variable fails or throws, every other variable of
\* the same chunk and of all later chunks is still processed, and the
\* conversion returns its result as long as one entry was generated.
C28_FailureIsolated ==
  /\ caught \subseteq throwingIds
  /\ generated = completed \ (missingIds \cup throwingIds)
  /\ phase = "threw" => (collections = <<>> \/ (generated = {} /\ completed = AllIds))
  /\ Ended /\ collections # <<>> =>
       /\ completed = AllIds
       /\ generated = AllIds \ (missingIds \cup throwingIds)
       /\ generated # {} => phase = "returned"

\* the first resolution threw; a variable of its chunk and one of the next
\* chunk have their entries, and the result is returned
C28_Witness ==
  /\ phase = "returned"
  /\ 1 \in caught
  /\ VARIABLE_BATCH_SIZE \in completed \cap missingIds
  /\ 2 \in generated
  /\ Len(chunkLog) > 1
  /\ ElementsOf(chunkLog[Len(chunkLog)]) \cap generated # {}

\* ------------------------------------------- export invocations side by side
\* bound: the "update-config" messages handled while exports are in flight
MaxConfigUpdates == 1

\* the repository the plugin is set up for, and settings the UI may send
\* while an export is in flight: another owner, another token and path
\* the two export invocations whose awaits interleave
Invocations == {"first", "second"}

TheRepository == [owner |-> "acme", repo |-> "tokens"]

InFlightConfigPool ==
  {[owner |-> "acme", repo |-> "tokens", path |-> "src/styles", token |-> "ghp_x"],
   [owner |-> "umbra", repo |-> "tokens", path |-> "src/styles", token |-> "ghp_x"],
   [owner |-> "acme", repo |-> "tokens", path |-> "dist", token |-> "ghp_y"]}

\* the names the creation loop can try within one minute (github-service.ts:
\* 19-22, 90, 102-103)
RaceBranches == {BranchNameAt(FeatureBranchBase, n) : n \in 0..(MaxRefAttempts - 1)}

NoRun ==
  [at |-> "none", candidate |-> 0, attempt |-> 0, featureBranch |-> Null,
   refCreated |-> FALSE, target |-> Null, addressed |-> {}]

\* fetch(...): the URL and the Authorization header are built from
\* GITHUB_CONFIG as it is when the request is issued
Requests(run, awaiting) ==
  [run EXCEPT !.at = awaiting, !.target = cfg, !.addressed = @ \cup {cfg}]

Throws(run) == [run EXCEPT !.at = "export-error"]

Addresses(run, repository) ==
  /\ run.target.owner = repository.owner
  /\ run.target.repo = repository.repo

\* main.ts after a successful conversion
Converted ==
  /\ isRunning = FALSE
  /\ lastConversionResult = ConversionResult(1)
  /\ exports = [e \in ExportIds |-> "none"]
  /\ posted = Null
  /\ inFlight = 0
  /\ converted = 1
  /\ exported = [e \in ExportIds |-> Null]
  /\ lastError = Null

InitRace ==
  /\ PushIdle
  /\ Converted
  /\ ResolveIdle
  /\ DetectIdle
  /\ FloatIdle
  /\ BuildIdle
  /\ ThemeIdle
  /\ ConvertIdle
  /\ BatchIdle
  /\ EncodeIdle
  /\ runs = [e \in Invocations |-> NoRun]
  /\ heads = [b \in RaceBranches |-> Null]
  /\ createdBy = [b \in RaceBranches |-> Null]
  /\ patched = {}
  /\ configUpdates = 0

\* case "export-github" up to the first fetch (main.ts:105-110,
\* export.service.ts:27-56, github-service.ts:35-58)
ExportStarts(e) ==
  /\ runs[e].at = "none"
  /\ runs' = [runs EXCEPT ![e] =
                IF MissingConfig # {} THEN Throws(@) ELSE Requests(@, "await_baseRef")]
  /\ UNCHANGED <<cfg, raceFrame, heads, createdBy, patched, configUpdates>>

\* the lookup of a base candidate is answered (github-service.ts:56-103)
BaseRefAnswered(e) ==
  /\ runs[e].at = "await_baseRef"
  /\ \E isOk \in BOOLEAN :
       runs' = [runs EXCEPT ![e] =
                  IF isOk THEN Requests(@, "await_createRef")
                  ELSE IF @.candidate + 1 < Len(baseBranchCandidates)
                       THEN Requests([@ EXCEPT !.candidate = @ + 1], "await_baseRef")
                       ELSE Throws(@)]
  /\ UNCHANGED <<cfg, raceFrame, heads, createdBy, patched, configUpdates>>

\* the answers to the creation of branch: of the repository when the request
\* addressed it, of some other repository otherwise
CreationAnswers(run, branch) ==
  IF Addresses(run, TheRepository)
  THEN IF heads[branch] # Null THEN {"exists", "refused"}
       ELSE {"created", "created-unseen", "refused"}
  ELSE {"elsewhere-created", "exists", "refused"}

\* the creation loop taking "already exists" for its own creation
CreateRefAnswered_ExistsIsOk(e) ==
  /\ runs[e].at = "await_createRef"
  /\ LET branch == BranchNameAt(FeatureBranchBase, runs[e].attempt)
     IN \E answer \in CreationAnswers(runs[e], branch) :
          /\ heads' = IF answer \in {"created", "created-unseen"}
                      THEN [heads EXCEPT ![branch] = "commit_master"] ELSE heads
          /\ createdBy' = IF answer \in {"created", "created-unseen"}
                          THEN [createdBy EXCEPT ![branch] = e] ELSE createdBy
          /\ runs' = [runs EXCEPT ![e] =
               IF answer \in {"created", "elsewhere-created", "exists"}
               THEN Requests([@ EXCEPT !.featureBranch = branch, !.refCreated = TRUE],
                             "await_baseCommit")
               ELSE Throws(@)]
  /\ UNCHANGED <<cfg, raceFrame, patched, configUpdates>>

\* a POST to git/refs is answered (github-service.ts:101-179)
CreateRefAnswered(e) ==
  /\ runs[e].at = "await_createRef"
  /\ LET branch == BranchNameAt(FeatureBranchBase, runs[e].attempt)
     IN \E answer \in CreationAnswers(runs[e], branch) :
          /\ heads' = IF answer \in {"created", "created-unseen"}
                      THEN [heads EXCEPT ![branch] = "commit_master"] ELSE heads
          /\ createdBy' = IF answer \in {"created", "created-unseen"}
                          THEN [createdBy EXCEPT ![branch] = e] ELSE createdBy
          /\ runs' = [runs EXCEPT ![e] =
               IF answer \in {"created", "elsewhere-created"}
               THEN Requests([@ EXCEPT !.featureBranch = branch, !.refCreated = TRUE],
                             "await_baseCommit")
               ELSE IF answer = "exists"
               THEN IF @.attempt + 1 < MaxRefAttempts
                    THEN Requests([@ EXCEPT !.attempt = @ + 1], "await_createRef")
                    ELSE Throws([@ EXCEPT !.attempt = @ + 1])
               ELSE Throws(@)]
  /\ UNCHANGED <<cfg, raceFrame, patched, configUpdates>>

\* the awaits between the creation and the ref update: base commit, the blob
\* of the theme file, tree, commit (github-service.ts:181-296)
ObjectPositions ==
  <<"await_baseCommit", "await_blob", "await_tree", "await_newCommit",
    "await_updateRef">>

ObjectAnswered(e) ==
  /\ \E i \in 1..(Len(ObjectPositions) - 1) :
       /\ runs[e].at = ObjectPositions[i]
       /\ \E isOk \in BOOLEAN :
            runs' = [runs EXCEPT ![e] =
                       IF isOk THEN Requests(@, ObjectPositions[i + 1]) ELSE Throws(@)]
  /\ UNCHANGED <<cfg, raceFrame, heads, createdBy, patched, configUpdates>>

\* the PATCH of refs/heads/featureBranch is answered (github-service.ts:
\* 299-328): carried out only on a branch the addressed repository has
UpdateRefAnswered(e) ==
  /\ runs[e].at = "await_updateRef"
  /\ LET branch == runs[e].featureBranch
         there == Addresses(runs[e], TheRepository)
     IN \E answer \in (IF there /\ heads[branch] = Null THEN {"refused"}
                       ELSE {"updated", "updated-unseen", "refused"}) :
          LET applied == there /\ answer # "refused"
          IN /\ heads' = IF applied THEN [heads EXCEPT ![branch] = "commit_new"]
                         ELSE heads
             /\ patched' = IF applied THEN patched \cup {<<e, branch>>} ELSE patched
             /\ runs' = [runs EXCEPT ![e].at =
                           IF answer = "updated" THEN "export-success" ELSE "export-error"]
  /\ UNCHANGED <<cfg, raceFrame, createdBy, configUpdates>>

\* case "update-config" while exports are at their awaits (main.ts:301-314)
ConfigUpdated ==
  /\ configUpdates < MaxConfigUpdates
  /\ \E e \in Invocations : runs[e].at \notin {"none", "export-success", "export-error"}
  /\ \E githubConfig \in InFlightConfigPool \ {cfg} : cfg' = githubConfig
  /\ configUpdates' = configUpdates + 1
  /\ UNCHANGED <<raceFrame, runs, heads, createdBy, patched>>

NextRace ==
  \/ \E e \in Invocations : ExportStarts(e)
  \/ \E e \in Invocations : BaseRefAnswered(e)
  \/ \E e \in Invocations : CreateRefAnswered(e)
  \/ \E e \in Invocations : ObjectAnswered(e)
  \/ \E e \in Invocations : UpdateRefAnswered(e)
  \/ ConfigUpdated

SpecRace == InitRace /\ [][NextRace]_vars

\* ------------------------------------------------ vocabulary of C29 and C30
\* every request of invocation e so far went to the repository
AllInRepository(e) ==
  \A c \in runs[e].addressed : c.owner = TheRepository.owner /\ c.repo = TheRepository.repo

\* ------------------------------------------------------------------- C29
\* C29: all requests of one export invocation address the same repository and
\* carry the same token and path prefix, even when an update-config message
\* is handled while the export is between two of its network calls.
C29_OneConfigPerExport ==
  \A e \in Invocations : Cardinality(runs[e].addressed) <= 1

\* ------------------------------------------------------------------- C30
\* C30: when export invocations interleave at their network calls against the
\* same repository, each invocation's ref update targets only a branch whose
\* creation that invocation saw succeed; no feature branch is updated by two
\* invocations, so each feature branch receives at most one commit.
C30_OwnBranchOnly ==
  (\A e \in Invocations : AllInRepository(e)) =>
    /\ \A e \in Invocations :
         runs[e].at = "await_updateRef" =>
           /\ runs[e].refCreated
           /\ createdBy[runs[e].featureBranch] = e
    /\ \A update \in patched : createdBy[update[2]] = update[1]
    /\ \A b \in RaceBranches : Cardinality({update \in patched : update[2] = b}) <= 1
    /\ \A e, f \in Invocations :
         (e # f /\ runs[e].refCreated /\ runs[f].refCreated)
           => runs[e].featureBranch # runs[f].featureBranch

\* two invocations in one minute, both to the end: the second had to take
\* the next name
C30_Witness ==
  /\ \A e \in Invocations : runs[e].at = "export-success"
  /\ \A e \in Invocations : AllInRepository(e)
  /\ Cardinality(patched) = Cardinality(Invocations)
  /\ \E e \in Invocations : runs[e].attempt > 0

\* ------------------------------------------------------------------- C31
\* C31: isRunning is true exactly while a call of convertVariablesToCSS is
\* in flight: a convert request arriving during the call is answered with
\* "Plugin already running", leaves the flag set and starts no second call;
\* once the call has settled, fulfilled or rejected, the flag is false and
\* the next request starts a call.
C31_FlagTracksFlight ==
  /\ inFlight \in {0, 1}
  /\ isRunning <=> inFlight = 1

\* a request was rejected while the call it met is still in flight
C31_Witness ==
  /\ isRunning
  /\ inFlight = 1
  /\ converted = 0
  /\ posted = "convert-error"
  /\ lastError = "Plugin already running"

\* ------------------------------------------------------------------- C32
\* C32: lastConversionResult changes only when a conversion fulfils, and
\* then to the object that conversion returned; an export requested while
\* it is null ends in "export-error" without a request to GitHub; a rejected
\* conversion or a refused convert request leaves it as it was, so the
\* argument of exportToGitHub is the result of the latest fulfilled
\* conversion.
C32_CachedResultFrame ==
  /\ [](/\ lastConversionResult = (IF converted = 0 THEN Null
                                    ELSE ConversionResult(converted))
        /\ \A e \in ExportIds :
             exports[e] # "none" /\ exported[e] = Null => exports[e] = "export-error")
  /\ [][/\ lastConversionResult' # lastConversionResult =>
             /\ converted' = converted + 1
             /\ posted' = "convert-success"
         /\ \A e \in ExportIds :
              exports[e] = "none" /\ exports'[e] # "none" =>
                exported'[e] = (IF converted = 0 THEN Null
                                ELSE ConversionResult(converted))]_vars

\* the first result is still cached after a later conversion failed: one
\* export was handed it, another was refused before any conversion fulfilled
C32_Witness ==
  /\ converted = 1
  /\ posted = "convert-error"
  /\ lastError = "conversion failed"
  /\ lastConversionResult = ConversionResult(1)
  /\ \E e \in ExportIds : exported[e] = ConversionResult(1) /\ InProtocol(e)
  /\ \E e \in ExportIds : exported[e] = Null /\ exports[e] = "export-error"

\* ------------------------------------------------------------------- C33
\* C33: buildThemeAwareCssOutput gives one document per input theme: for an
\* input of two or more distinct theme names the output has as many
\* documents as the input has themes, none written over by another theme's.
C33_OneDocumentPerTheme ==
  themeCss # Null /\ Len(modeNames) >= 2 =>
    /\ Len(themeCss) = Len(modeNames)
    /\ Cardinality(SlugsOf(themeCss)) = Cardinality(ModeNameSet)

\* ------------------------------------------------------------------- C34
\* the entry lines of the document that are the entry of this variable
EntriesOf(variable) == {i \in LinesOfKind("entry") : document[i] = Entry(variable)}

\* the heading of the section a variable of this type belongs to
SectionLabelOf(type) ==
  CASE type = "color" -> "Colors"
    [] type = "fonts" -> "Fonts"
    [] OTHER -> "Measures"

\* C34: assembly conserves entries: every variable of the input list is one
\* entry of the document and no more, under the heading of its category, a
\* variable whose category is none of color, fonts, measures under Measures;
\* the document has no entry besides these.
C34_EntriesConserved ==
  document # Null =>
    /\ \A n \in DOMAIN cssVariables :
         /\ Cardinality(EntriesOf(cssVariables[n])) = 1
         /\ \A i \in EntriesOf(cssVariables[n]) :
              document[SectionAt(i)].label = SectionLabelOf(cssVariables[n].type)
    /\ \A i \in LinesOfKind("entry") :
         \E n \in DOMAIN cssVariables : i \in EntriesOf(cssVariables[n])

\* a list with a variable of type "shadow", listed under Measures beside a
\* colour and a measure
C34_Witness ==
  /\ document # Null
  /\ Len(cssVariables) = 3
  /\ {cssVariables[n].type : n \in DOMAIN cssVariables} = {"shadow", "color", "measures"}
  /\ \E n \in DOMAIN cssVariables :
       /\ cssVariables[n].type = "shadow"
       /\ \E i \in EntriesOf(cssVariables[n]) : document[SectionAt(i)].label = "Measures"

\* ------------------------------------------------------------------- C35
\* C35: for a Number variable A whose value in mode M is an alias to a
\* variable C holding a literal number in mode M, zero included, the call
\* for A in mode M returns the text the call for C in mode M returned.
C35_NumberAliasEqualsTarget ==
  (/\ rpc = "done"
   /\ probe.set
   /\ request.variable \in VarIds
   /\ request.modeId \in ModeIds
   /\ graph[request.variable].resolvedType = "FLOAT"
   /\ graph[request.variable].valuesByMode[request.modeId].kind = "alias"
   /\ LET target == graph[request.variable].valuesByMode[request.modeId].id
      IN /\ target \in VarIds
         /\ graph[target].resolvedType = "FLOAT"
         /\ graph[target].valuesByMode[request.modeId].kind = "number"
         /\ probe.request = [variable |-> target, modeId |-> request.modeId]) =>
     output = probe.output

\* ------------------------------------------------- CSS names of variables
IsSeparator(c) == c \in {"/", "-", "_"} \/ IsSpace(c)

\* s without its first n characters
Drop(s, n) == [i \in 1..(Len(s) - n) |-> s[i + n]]

\* split(/[/\-_\s]+/), the first character of each part in upper case, the
\* parts joined
RECURSIVE JoinCapitalized(_, _)
JoinCapitalized(s, atPartStart) ==
  IF s = <<>> THEN <<>>
  ELSE IF IsSeparator(Head(s)) THEN JoinCapitalized(Tail(s), TRUE)
  ELSE <<IF atPartStart THEN UpperChar(Head(s)) ELSE Head(s)>>
       \o JoinCapitalized(Tail(s), FALSE)

\* cleanVariableName (css-generator.ts:750-770)
cleanVariableName(name_) == JoinCapitalized(name_, TRUE)

\* the category as the characters of the CSS name
TypeText(type) ==
  CASE type = "color" -> Str_color
    [] type = "fonts" -> <<"f", "o", "n", "t", "s">>
    [] type = "measures" -> <<"m", "e", "a", "s", "u", "r", "e", "s">>

\* generateCSSVariableName (variable-naming.service.ts:13-28)
generateCSSVariableName(variableName) ==
  LET variableType == TypeText(detectVariableType(variableName))
      cleanVariable == cleanVariableName(variableName)
      typeCapitalized == <<UpperChar(Head(variableType))>> \o Tail(variableType)
  IN <<"-", "-">> \o variableType \o
       (IF startsWith(cleanVariable, typeCapitalized)
        THEN Drop(cleanVariable, Len(typeCapitalized))
        ELSE cleanVariable)

\* ------------------------------------ a conversion of one chunk, by entry
\* bound: the variables of the collection
MaxBatch == 2

\* bound: the calls of convertVariablesToCSS of one session
MaxConversionCalls == 2

\* MAX_CACHE_SIZE of conversion.constants.ts, the limit of cssNameCache
MAX_NAME_CACHE_SIZE == 500

\* the names of the collection's modes, by mode id
BatchModes == <<Str_Light, Str_Dark>>

\* a variable of the file: its name and what generateCSSValue returns for
\* each mode; found is false for an id getVariableByIdAsync answers with null
FileVariable(name_, values, found) == [name |-> name_, values |-> values, found |-> found]

\* two names of one CSS name, a third name, a variable of a type that has no
\* CSS value, and an id without a variable
BatchVariablePool ==
  {FileVariable(<<"g", "a", "p", "/", "s", "m">>, <<"4px", "6px">>, TRUE),
   FileVariable(<<"g", "a", "p", " ", "s", "m">>, <<"8px", "8px">>, TRUE),
   FileVariable(<<"g", "a", "p", "/", "l", "g">>, <<"16px", "16px">>, TRUE),
   FileVariable(<<"i", "s", "/", "o", "n">>, <<"", "">>, TRUE),
   FileVariable(<<>>, <<"", "">>, FALSE)}

\* a file without collections, or with one collection of at most a chunk
BatchFilePool ==
  {<<>>} \cup {<<variables>> : variables \in DistinctSeqs(BatchVariablePool, 0, MaxBatch)}

\* getCachedCSSVariableName (cache.helper.ts:17-36): what it returns and
\* what it leaves in the cache; the key is the name, the collection being one
getCachedCSSVariableName(cache, variableName) ==
  IF \E e \in cache : e.key = variableName
  THEN (CHOOSE e \in cache : e.key = variableName).value
  ELSE generateCSSVariableName(variableName)

cssNameCacheAfter(cache, variableName) ==
  IF (\E e \in cache : e.key = variableName) \/ Cardinality(cache) >= MAX_NAME_CACHE_SIZE
  THEN cache
  ELSE cache \cup {[key |-> variableName, value |-> generateCSSVariableName(variableName)]}

\* variablePool.pop() of getPooledVariableObject (cache.helper.ts:41-48)
PoolAfterPop(pool) == IF pool = <<>> THEN pool ELSE SubSeq(pool, 1, Len(pool) - 1)

\* variablesByTheme[modeName].push(variableObj), the key made when missing
\* (variable-conversion.service.ts:91-102)
RECURSIVE PushEntry(_, _, _)
PushEntry(byTheme, modeName, entry) ==
  IF byTheme = <<>> THEN <<[theme |-> modeName, variables |-> <<entry>>]>>
  ELSE IF Head(byTheme).theme = modeName
       THEN <<[theme |-> modeName, variables |-> Append(Head(byTheme).variables, entry)]>>
            \o Tail(byTheme)
       ELSE <<Head(byTheme)>> \o PushEntry(Tail(byTheme), modeName, entry)

\* buildThemeAwareCssOutput (css-builder.service.ts:80-99) with every
\* document line by line
RECURSIVE BuildThemeDocuments(_, _, _)
BuildThemeDocuments(byTheme, nThemes, result) ==
  IF byTheme = <<>> THEN result
  ELSE BuildThemeDocuments(Tail(byTheme), nThemes,
                           PutKey(result, ThemeSlug(Head(byTheme).theme, nThemes),
                                  buildCssLines(Head(byTheme).variables)))

themeDocuments(byTheme) == BuildThemeDocuments(byTheme, Len(byTheme), <<>>)

AwaitingVariable == [at |-> "fetch", mode |-> 0, cssVariableName |-> <<>>]
CallbackDone == [at |-> "done", mode |-> 0, cssVariableName |-> <<>>]

\* the end of convertVariablesToCSS with the caches cleared on the return
\* only
EndOfLoops_ClearsOnReturn(entries) ==
  /\ stage' = IF entries = <<>> THEN "threw" ELSE "returned"
  /\ themeData' = IF entries = <<>> THEN themeData ELSE entries
  /\ themeDocs' = IF entries = <<>> THEN themeDocs ELSE Null
  /\ IF entries = <<>>
     THEN UNCHANGED <<cssNameCache, variablePool>>
     ELSE cssNameCache' = {} /\ variablePool' = <<>>

\* convertVariablesToCSS after its loops (variable-conversion.service.ts:
\* 241-302): without an entry it throws and the catch clears the caches,
\* otherwise it clears the caches and returns variablesByTheme
EndOfLoops(entries) ==
  /\ stage' = IF entries = <<>> THEN "threw" ELSE "returned"
  /\ themeData' = IF entries = <<>> THEN themeData ELSE entries
  /\ themeDocs' = IF entries = <<>> THEN themeDocs ELSE Null
  /\ cssNameCache' = {}
  /\ variablePool' = <<>>

\* convertVariablesToCSS up to the await of its chunk (lines 156-228, 60-70):
\* a file without collections throws, a collection without ids passes the
\* loops, otherwise every callback of the chunk is at its first await
ConvertFile ==
  /\ stage \in {"idle", "returned", "threw"}
  /\ conversionCalls < MaxConversionCalls
  /\ conversionCalls' = conversionCalls + 1
  /\ themeEntries' = <<>>
  /\ IF batchFile = <<>>
     THEN /\ EndOfLoops(<<>>)
          /\ UNCHANGED callbacks
     ELSE IF batchFile[1] = <<>>
     THEN /\ EndOfLoops(<<>>)
          /\ UNCHANGED callbacks
     ELSE /\ stage' = "chunk"
          /\ callbacks' = [i \in DOMAIN batchFile[1] |-> AwaitingVariable]
          /\ UNCHANGED <<cssNameCache, variablePool, themeData, themeDocs>>
  /\ UNCHANGED <<batchFrame, batchFile, firstDocs>>

\* getVariableByIdAsync of one callback settles (lines 68-88): without a
\* variable the callback returns, otherwise it takes the CSS name from the
\* cache and awaits the value of the first mode
VariableFetched(i) ==
  /\ stage = "chunk"
  /\ callbacks[i].at = "fetch"
  /\ LET variable == batchFile[1][i]
     IN IF ~variable.found
        THEN /\ callbacks' = [callbacks EXCEPT ![i] = CallbackDone]
             /\ UNCHANGED cssNameCache
        ELSE /\ callbacks' = [callbacks EXCEPT ![i] =
                                [at |-> "value", mode |-> 1,
                                 cssVariableName |->
                                   getCachedCSSVariableName(cssNameCache, variable.name)]]
             /\ cssNameCache' = cssNameCacheAfter(cssNameCache, variable.name)
  /\ UNCHANGED <<batchFrame, batchFile, stage, conversionCalls, themeEntries,
                 variablePool, themeData, themeDocs, firstDocs>>

\* generateCSSValue of one callback settles (lines 88-110): a value that is
\* not empty is pushed to the list of its mode; then the next mode, or the
\* end of the callback
ValueGenerated(i) ==
  /\ stage = "chunk"
  /\ callbacks[i].at = "value"
  /\ LET variable == batchFile[1][i]
         modeId == callbacks[i].mode
         cssValue == variable.values[modeId]
     IN /\ IF cssValue # ""
           THEN /\ themeEntries' =
                     PushEntry(themeEntries, BatchModes[modeId],
                               CSSVariable(callbacks[i].cssVariableName, cssValue,
                                           detectVariableType(variable.name)))
                /\ variablePool' = PoolAfterPop(variablePool)
           ELSE UNCHANGED <<themeEntries, variablePool>>
        /\ callbacks' = [callbacks EXCEPT ![i] =
                           IF modeId < Len(BatchModes)
                           THEN [callbacks[i] EXCEPT !.mode = modeId + 1]
                           ELSE CallbackDone]
  /\ UNCHANGED <<batchFrame, batchFile, stage, conversionCalls, cssNameCache,
                 themeData, themeDocs, firstDocs>>

\* Promise.all resolves and the loops end, the collection being one chunk
\* (lines 116, 230-239)
BatchSettled ==
  /\ stage = "chunk"
  /\ \A i \in DOMAIN callbacks : callbacks[i].at = "done"
  /\ EndOfLoops(themeEntries)
  /\ UNCHANGED <<batchFrame, batchFile, conversionCalls, callbacks, themeEntries, firstDocs>>

\* the export builds the documents of the cached result
\* (export.service.ts:40-45; css-builder.service.ts:80-99)
BuildDocuments ==
  /\ stage = "returned"
  /\ themeDocs = Null
  /\ themeDocs' = themeDocuments(themeData)
  /\ firstDocs' = IF firstDocs = Null THEN themeDocs' ELSE firstDocs
  /\ UNCHANGED <<batchFrame, batchFile, stage, conversionCalls, callbacks, themeEntries,
                 cssNameCache, variablePool, themeData>>

InitBatch ==
  /\ PushIdle
  /\ MainInit
  /\ ResolveIdle
  /\ DetectIdle
  /\ FloatIdle
  /\ BuildIdle
  /\ ThemeIdle
  /\ ConvertIdle
  /\ RaceIdle
  /\ EncodeIdle
  /\ batchFile \in BatchFilePool
  /\ BatchAtRest

NextBatch ==
  \/ ConvertFile
  \/ \E i \in DOMAIN callbacks : VariableFetched(i)
  \/ \E i \in DOMAIN callbacks : ValueGenerated(i)
  \/ BatchSettled
  \/ BuildDocuments

SpecBatch == InitBatch /\ [][NextBatch]_vars

\* ------------------------------------------------------------------- C36
\* C36: no cache state is left by a call of convertVariablesToCSS: whenever
\* no call is under way, before the first and after every return and every
\* thrown error, the CSS-name cache and the object pool are empty, so every
\* call starts from empty caches.
C36_NoCacheLeak ==
  stage \in {"idle", "returned", "threw"} =>
    /\ cssNameCache = {}
    /\ variablePool = <<>>

\* a second call that had cached a name ended with the error of no entries
C36_Witness ==
  /\ conversionCalls = 2
  /\ stage = "threw"
  /\ batchFile # <<>>
  /\ \E i \in DOMAIN batchFile[1] : batchFile[1][i].found
  /\ cssNameCache = {}
  /\ variablePool = <<>>

\* ------------------------------------------------------------------- C37
\* the documents by theme
DocumentsOf(docs) == {<<docs[i].key, docs[i].content>> : i \in DOMAIN docs}

\* C37: for one file, the themes and the body of every theme document are
\* the same whatever the order in which the resolutions of a chunk complete:
\* the documents of a later conversion of the file are those of the first.
C37_OrderIndependent ==
  (themeDocs # Null /\ firstDocs # Null) =>
    DocumentsOf(themeDocs) = DocumentsOf(firstDocs)

\* ------------------------------------------------------------ base64Encode
\* bound: the characters of the string
MaxLength == 3

\* the character codes of the model: NUL, "A", the last code of one byte, the
\* first code of two bytes, and the code of a check mark
CodePool == {0, 65, 255, 256, 9989}

StringPool == UNION {[1..n -> CodePool] : n \in 0..MaxLength}

\* the chars of css-generator.ts:810-811
Base64Chars ==
  UpperAlphabet \o LowerAlphabet
    \o <<"0", "1", "2", "3", "4", "5", "6", "7", "8", "9", "+", "/">>

\* chars.charAt(k)
charAt(k) == Base64Chars[k + 1]

\* x | y on 32-bit operands
RECURSIVE BitOr(_, _)
BitOr(x, y) ==
  IF x = 0 THEN y
  ELSE IF y = 0 THEN x
  ELSE (IF x % 2 = 1 \/ y % 2 = 1 THEN 1 ELSE 0) + 2 * BitOr(x \div 2, y \div 2)

\* one turn of the loop (css-generator.ts:816-825). Only bits 0 to 23 of the
\* bitmap are read, and of a << 16 these are the low eight bits of a; b << 8
\* reaches up to bit 23 and c up to bit 15
Quad(a, b, c) ==
  LET bitmap == BitOr(BitOr((a % 2^8) * 2^16, b * 2^8), c)
  IN <<charAt((bitmap \div 2^18) % 64), charAt((bitmap \div 2^12) % 64),
       charAt((bitmap \div 2^6) % 64), charAt(bitmap % 64)>>

\* the while loop of css-generator.ts:815-826
RECURSIVE EncodeLoop(_)
EncodeLoop(inputStr) ==
  IF inputStr = <<>> THEN <<>>
  ELSE LET a == inputStr[1]
           b == IF Len(inputStr) >= 2 THEN inputStr[2] ELSE 0
           c == IF Len(inputStr) >= 3 THEN inputStr[3] ELSE 0
       IN Quad(a, b, c) \o EncodeLoop(Drop(inputStr, Min(3, Len(inputStr))))

\* base64Encode (css-generator.ts:800-836) of a string given by its codes
base64Encode(str) ==
  LET result == EncodeLoop(str)
      padding == Len(str) % 3
  IN IF padding = 1 THEN SubSeq(result, 1, Len(result) - 2) \o <<"=", "=">>
     ELSE IF padding = 2 THEN SubSeq(result, 1, Len(result) - 1) \o <<"=">>
     ELSE result

\* standard base64 (RFC 4648): the six bits of a character, the bytes of a
\* group of four characters, and the bytes of a text
SextetOf(ch) ==
  IF ch = "=" THEN 0 ELSE (CHOOSE k \in DOMAIN Base64Chars : Base64Chars[k] = ch) - 1

BytesOfGroup(group) ==
  LET bits == SextetOf(group[1]) * 2^18 + SextetOf(group[2]) * 2^12
                + SextetOf(group[3]) * 2^6 + SextetOf(group[4])
      bytes == <<bits \div 2^16, (bits \div 2^8) % 2^8, bits % 2^8>>
  IN IF group[3] = "=" THEN SubSeq(bytes, 1, 1)
     ELSE IF group[4] = "=" THEN SubSeq(bytes, 1, 2)
     ELSE bytes

RECURSIVE Base64Decode(_)
Base64Decode(text) ==
  IF Len(text) < 4 THEN <<>>
  ELSE BytesOfGroup(SubSeq(text, 1, 4)) \o Base64Decode(Drop(text, 4))

InitEncode ==
  /\ PushIdle
  /\ MainInit
  /\ ResolveIdle
  /\ DetectIdle
  /\ FloatIdle
  /\ BuildIdle
  /\ ThemeIdle
  /\ ConvertIdle
  /\ RaceIdle
  /\ BatchIdle
  /\ plain \in StringPool
  /\ encoded = Null

\* base64Encode(content) of the blob request (github-service.ts:217-220)
Base64Encode ==
  /\ encoded = Null
  /\ encoded' = base64Encode(plain)
  /\ UNCHANGED <<encodeFrame, plain>>

NextEncode == Base64Encode

SpecEncode == InitEncode /\ [][NextEncode]_vars

\* ------------------------------------------------------------------- C38
\* C38: base64Encode round-trips: for every string, decoding the output as
\* standard base64 gives the character codes of the string as bytes, the
\* output has 4 * ceil(length / 3) characters, and it ends with "==", "=" or
\* no padding when the length modulo 3 is 1, 2 or 0.
C38_RoundTrip ==
  encoded # Null =>
    /\ Base64Decode(encoded) = plain
    /\ Len(encoded) = 4 * ((Len(plain) + 2) \div 3)
    /\ Len(plain) % 3 = 1 =>
         /\ encoded[Len(encoded)] = "="
         /\ encoded[Len(encoded) - 1] = "="
    /\ Len(plain) % 3 = 2 =>
         /\ encoded[Len(encoded)] = "="
         /\ encoded[Len(encoded) - 1] # "="
    /\ Len(plain) % 3 = 0 =>
         \A k \in DOMAIN encoded : encoded[k] # "="

====
